---------------------------- MODULE Spec2Model ----------------------------
(***************************************************************************)
(* A model of the retrieval engine of SafeLaunchAI: the noise/quality      *)
(* filter, the chunker, the JSON-backed VectorStore with its ingestion     *)
(* operations, and the ranked search with its result cache.                *)
(*                                                                         *)
(* Texts are sequences of characters.  A character is a one-character      *)
(* string; a Hangul syllable is written as its romanisation with the       *)
(* prefix K_ (K_je K_jo is the two-character text "je-jo" of an article    *)
(* marker), because module text is ASCII.                                  *)
(***************************************************************************)
EXTENDS Integers, Sequences, FiniteSets, TLC

VARIABLES
    fText,      \* filter: the text handed to validate_legal_document
    fType,      \* filter: the source_type argument
    fResult,    \* filter: <<>> before the call, then <<the returned BOOLEAN>>
    cText,      \* chunker: the raw text argument
    cMeta,      \* chunker: the parent metadata argument
    cSize,      \* chunker: the chunk_size argument
    cOverlap,   \* chunker: the overlap argument
    cOut,       \* chunker: NoOutput before the call, then what it returned
    _stores,    \* store: the names get_or_create_collection has instantiated
    _docs,      \* store: per collection, the instance's dict in insertion order
    file,       \* store: per collection, the JSON file on disk
    sv,         \* store: where the running _save stands
    call,       \* store: the running or last finished operation and its result
    up,         \* history: the latest upsert applied to memory
    ioFailed,   \* history: a file write failed during the current operation
    ops,        \* operations started so far
    failures,   \* write failures so far
    restarts,   \* process restarts so far
    semScore,   \* search: the similarity the index gives each chunk for the query
    kwRows,     \* search: the rows the full-text search returns for the query
    channel,    \* search: per collection, how its index answers a query
    _search_cache,  \* search: cache key -> <<cached_time, cached_result>>
    now,        \* search: time.time(), in seconds
    sOut,       \* search: the latest call and what it returned
    searches,   \* searches made so far
    LEGAL_SYNONYMS, \* expansion: the synonym table, a list of (term, synonyms)
    xQuery,     \* expansion: the query handed to expand_query
    xOut,       \* expansion: <<>> before the call, then <<the returned text>>
    th,         \* threads: per thread, the search it runs and where it stands
    document_chunks,     \* database: the rows of table document_chunks
    compliance_analyses, \* database: the rows of table compliance_analyses
    analysis_findings,   \* database: the rows of table analysis_findings
    projects,            \* database: project id -> status
    count_columns,       \* database: how the schema declares the count columns
    dbOut,               \* database: the latest call and what it returned
    dbOps,               \* database calls made so far
    fuSem,      \* fusion: the list the semantic search returned
    fuKw,       \* fusion: the list the keyword search returned
    fuOut,      \* fusion: the merged candidates, once the loops have run
    _vectorstores   \* index: per collection, the chunks its FAISS index holds

filterVars == <<fText, fType, fResult>>
chunkVars == <<cText, cMeta, cSize, cOverlap, cOut>>
storeVars == <<_stores, _docs, file, sv, call, up, ioFailed, ops, failures, restarts>>
expandVars == <<LEGAL_SYNONYMS, xQuery, xOut>>
searchVars == <<semScore, kwRows, channel, _search_cache, now, sOut, searches, expandVars>>
threadVars == <<th>>
dbVars == <<document_chunks, compliance_analyses, analysis_findings, projects,
           count_columns, dbOut, dbOps>>
fusionVars == <<fuSem, fuKw, fuOut>>
indexVars == <<_vectorstores>>
moreVars == <<threadVars, dbVars, fusionVars, indexVars>>
vars == <<filterVars, chunkVars, storeVars, searchVars, moreVars>>

(***************************************************************************)
(* Strings                                                                 *)
(***************************************************************************)
\* n copies of the character c
Rep(c, n) == [i \in 1..n |-> c]

\* s repeated n times (Python's s * n)
RECURSIVE Times(_, _)
Times(s, n) == IF n <= 0 THEN <<>> ELSE s \o Times(s, n - 1)

\* str.isspace of one character
IsSpace(c) == c \in {" ", "\n", "\t"}

SetMin(S) == CHOOSE x \in S : \A y \in S : x <= y

\* str.strip(): leading and trailing whitespace removed
Strip(s) ==
    IF \A i \in 1..Len(s) : IsSpace(s[i]) THEN <<>>
    ELSE LET first == CHOOSE i \in 1..Len(s) :
                        ~IsSpace(s[i]) /\ \A j \in 1..(i - 1) : IsSpace(s[j])
             last == CHOOSE i \in 1..Len(s) :
                        ~IsSpace(s[i]) /\ \A j \in (i + 1)..Len(s) : IsSpace(s[j])
         IN SubSeq(s, first, last)

\* sub occurs in s at position j
OccursAt(s, sub, j) ==
    /\ j >= 1
    /\ j + Len(sub) - 1 <= Len(s)
    /\ \A k \in 1..Len(sub) : s[j + k - 1] = sub[k]

\* Python's `sub in s`
Contains(s, sub) == \E j \in 1..(Len(s) - Len(sub) + 1) : OccursAt(s, sub, j)

\* str.count of a single character
CountChar(s, c) == Cardinality({i \in 1..Len(s) : s[i] = c})

UpperToLower ==
    "A" :> "a" @@ "B" :> "b" @@ "C" :> "c" @@ "D" :> "d" @@ "E" :> "e" @@
    "F" :> "f" @@ "G" :> "g" @@ "H" :> "h" @@ "I" :> "i" @@ "J" :> "j" @@
    "K" :> "k" @@ "L" :> "l" @@ "M" :> "m" @@ "N" :> "n" @@ "O" :> "o" @@
    "P" :> "p" @@ "Q" :> "q" @@ "R" :> "r" @@ "S" :> "s" @@ "T" :> "t" @@
    "U" :> "u" @@ "V" :> "v" @@ "W" :> "w" @@ "X" :> "x" @@ "Y" :> "y" @@
    "Z" :> "z"

\* the case folding re.IGNORECASE applies to one character
Lower(c) == IF c \in DOMAIN UpperToLower THEN UpperToLower[c] ELSE c

Hangul ==
    {"K_aep", "K_ban", "K_beop", "K_chaek", "K_cham", "K_cheong", "K_cheu",
     "K_chim", "K_chwi", "K_de", "K_deu", "K_ga", "K_geon", "K_go", "K_gu",
     "K_gyeol", "K_gyu", "K_hae", "K_haeng", "K_hang", "K_ho", "K_i", "K_ja",
     "K_je", "K_jeong", "K_ji", "K_jo", "K_ju", "K_kon", "K_mun", "K_nae",
     "K_pan", "K_pi", "K_rye", "K_sa", "K_sang", "K_seon", "K_si", "K_sim",
     "K_so", "K_ten", "K_teo", "K_wi", "K_won", "K_yo", "K_yong", "K_yu"}

Digits == {"0", "1", "2", "3", "4", "5", "6", "7", "8", "9"}

\* \w of Python's re on str: letters of any script, digits and underscore
IsWordChar(c) ==
    \/ c \in DOMAIN UpperToLower
    \/ c \in {UpperToLower[u] : u \in DOMAIN UpperToLower}
    \/ c \in Digits
    \/ c = "_"
    \/ c \in Hangul

(***************************************************************************)
(* Noise / quality filter                                                  *)
(***************************************************************************)
\* The alternatives of NOISE_PATTERNS in the order of the regular
\* expression: pat is the literal, folded to lower case; wb says that the
\* literal is followed by \b.
NOISE_PATTERNS == <<
    [pat |-> <<"/", "d", "r", "f", "/">>, wb |-> FALSE],
    [pat |-> <<".", "c", "s", "s">>, wb |-> TRUE],
    [pat |-> <<".", "j", "s">>, wb |-> TRUE],
    [pat |-> <<".", "j", "p", "g">>, wb |-> TRUE],
    [pat |-> <<".", "p", "n", "g">>, wb |-> TRUE],
    [pat |-> <<".", "g", "i", "f">>, wb |-> TRUE],
    [pat |-> <<"f", "o", "n", "t", "-", "f", "a", "m", "i", "l", "y", ":">>, wb |-> FALSE],
    [pat |-> <<"f", "o", "n", "t", "-", "s", "i", "z", "e", ":">>, wb |-> FALSE],
    [pat |-> <<"t", "e", "x", "t", "-", "a", "l", "i", "g", "n", ":">>, wb |-> FALSE],
    [pat |-> <<"m", "a", "r", "g", "i", "n", "-", "t", "o", "p", ":">>, wb |-> FALSE],
    [pat |-> <<"p", "a", "d", "d", "i", "n", "g", ":">>, wb |-> FALSE],
    [pat |-> <<"b", "a", "c", "k", "g", "r", "o", "u", "n", "d", "-", "c", "o", "l", "o", "r", ":">>, wb |-> FALSE],
    [pat |-> <<"b", "o", "r", "d", "e", "r", ":">>, wb |-> FALSE],
    [pat |-> <<"<", "s", "c", "r", "i", "p", "t">>, wb |-> FALSE],
    [pat |-> <<"<", "s", "t", "y", "l", "e">>, wb |-> FALSE],
    [pat |-> <<"j", "q", "u", "e", "r", "y">>, wb |-> FALSE],
    [pat |-> <<"e", "x", "t", "-", "a", "l", "l">>, wb |-> FALSE],
    [pat |-> <<"r", "e", "s", "o", "u", "r", "c", "e", "s", "/", "c", "s", "s">>, wb |-> FALSE] >>

\* the characters an alternative of NOISE_PATTERNS can begin with
NoiseFirstChars == {NOISE_PATTERNS[p].pat[1] : p \in DOMAIN NOISE_PATTERNS}

\* alternative p matches text at position j
NoiseAltMatches(text, p, j) ==
    LET pat == NOISE_PATTERNS[p].pat
        end == j + Len(pat) - 1
    IN /\ end <= Len(text)
       /\ \A k \in 1..Len(pat) : Lower(text[j + k - 1]) = pat[k]
       \* \b after a word character: the end of the text or a non-word character
       /\ NOISE_PATTERNS[p].wb => (end = Len(text) \/ ~IsWordChar(text[end + 1]))

\* the length the regular expression consumes at j: that of its first
\* matching alternative, 0 when none matches
NoiseMatchLen(text, j) ==
    IF Lower(text[j]) \notin NoiseFirstChars THEN 0
    ELSE LET hits == {p \in DOMAIN NOISE_PATTERNS : NoiseAltMatches(text, p, j)}
         IN IF hits = {} THEN 0
            ELSE Len(NOISE_PATTERNS[CHOOSE p \in hits : \A q \in hits : p <= q].pat)

\* len(NOISE_PATTERNS.findall(text)): leftmost non-overlapping matches
\* `starts` holds the positions where the expression matches
RECURSIVE NoiseFindallFrom(_, _, _)
NoiseFindallFrom(text, starts, j) ==
    LET rest == {k \in starts : k >= j}
    IN IF rest = {} THEN 0
       ELSE LET k == SetMin(rest)
            IN 1 + NoiseFindallFrom(text, starts, k + NoiseMatchLen(text, k))

NoiseFindall(text) ==
    NoiseFindallFrom(text, {k \in 1..Len(text) : NoiseMatchLen(text, k) > 0}, 1)

LEGAL_KEYWORDS_LAW ==
    << <<"K_je">>, <<"K_jo">>, <<"K_hang">>, <<"K_ho">>, <<"K_beop">>,
       <<"K_gyu", "K_jeong">>, <<"K_si", "K_haeng">> >>

LEGAL_KEYWORDS_PRECEDENT ==
    << <<"K_pan", "K_si", "K_sa", "K_hang">>, <<"K_pan", "K_gyeol", "K_yo", "K_ji">>,
       <<"K_pan", "K_rye">>, <<"K_won", "K_go">>, <<"K_pi", "K_go">>,
       <<"K_beop", "K_won">>, <<"K_seon", "K_go">>, <<"K_pan", "K_gyeol">>,
       <<"K_sa", "K_geon">>, <<"K_cheong", "K_gu">>, <<"K_hang", "K_so">>,
       <<"K_sang", "K_go">>, <<"K_wi", "K_ban">>, <<"K_chim", "K_hae">> >>

LEGAL_KEYWORDS_POLICY ==
    << <<"K_aep">>, <<"K_jeong", "K_chaek">>, <<"K_ga", "K_i", "K_deu">>,
       <<"K_sim", "K_sa">>, <<"K_kon", "K_ten", "K_cheu">>,
       <<"K_de", "K_i", "K_teo">>, <<"K_sa", "K_yong", "K_ja">> >>

\* The slash test of _is_noise_text, text.count("/") / max(len(text), 1) > 0.05,
\* in integers: count * 20 > max(len, 1).  The float quotient decides the
\* same way, since count/len differs from 1/20 by at least 1/(20 len) when
\* it differs at all.
SlashRatioExceeds(text) ==
    LET n == IF Len(text) > 1 THEN Len(text) ELSE 1
    IN CountChar(text, "/") * 20 > n

NoiseMutantAtLeastFour(text) ==
    IF text = <<>> \/ Len(Strip(text)) < 10 THEN TRUE
    ELSE IF NoiseFindall(text) >= 4 THEN TRUE
    ELSE IF SlashRatioExceeds(text) THEN TRUE
    ELSE FALSE

_is_noise_text(text) ==
    IF text = <<>> \/ Len(Strip(text)) < 10 THEN TRUE
    ELSE IF NoiseFindall(text) >= 3 THEN TRUE
    ELSE IF SlashRatioExceeds(text) THEN TRUE
    ELSE FALSE

\* min_lengths.get(source_type, 50)
MinLength(source_type) ==
    CASE source_type = "law" -> 100
      [] source_type = "precedent" -> 80
      [] source_type = "store_policy" -> 50
      [] OTHER -> 50

\* keyword_map.get(source_type, LEGAL_KEYWORDS_LAW)
KeywordsOf(source_type) ==
    CASE source_type = "law" -> LEGAL_KEYWORDS_LAW
      [] source_type = "precedent" -> LEGAL_KEYWORDS_PRECEDENT
      [] source_type = "store_policy" -> LEGAL_KEYWORDS_POLICY
      [] OTHER -> LEGAL_KEYWORDS_LAW

\* sum(1 for kw in keywords if kw in text)
KeywordHits(text, keywords) ==
    Cardinality({k \in DOMAIN keywords : Contains(text, keywords[k])})

validate_legal_document(text, source_type) ==
    IF text = <<>> \/ Strip(text) = <<>> THEN FALSE
    ELSE IF _is_noise_text(text) THEN FALSE
    ELSE IF Len(Strip(text)) < MinLength(source_type) THEN FALSE
    ELSE IF KeywordHits(text, KeywordsOf(source_type)) < 2 THEN FALSE
    ELSE TRUE

(***************************************************************************)
(* Chunker                                                                 *)
(***************************************************************************)
\* the smallest member of a non-empty set of integers
\* the members of a finite set of integers in increasing order
RECURSIVE SortedSeq(_)
SortedSeq(S) == IF S = {} THEN <<>> ELSE <<SetMin(S)>> \o SortedSeq(S \ {SetMin(S)})

\* the first position >= from where s holds the character c, 0 when none
IndexFrom(s, c, from) ==
    LET hits == {k \in from..Len(s) : s[k] = c}
    IN IF hits = {} THEN 0 ELSE SetMin(hits)

\* sub occurs in s at position j, letter case ignored
OccursAtCI(s, sub, j) ==
    /\ j >= 1
    /\ j + Len(sub) - 1 <= Len(s)
    /\ \A k \in 1..Len(sub) : Lower(s[j + k - 1]) = sub[k]

\* the first position >= from where sub occurs in s (case ignored), 0 when none
FindFromCI(s, sub, from) ==
    LET hits == {k \in from..Len(s) : OccursAtCI(s, sub, k)}
    IN IF hits = {} THEN 0 ELSE SetMin(hits)

IsAsciiLetter(c) ==
    c \in DOMAIN UpperToLower \/ c \in {UpperToLower[u] : u \in DOMAIN UpperToLower}

\* the last position of a match of <name[^>]*>.*?</name> that begins at j
\* (DOTALL, IGNORECASE), 0 when there is none; open is "<name", close "</name>"
BlockEnd(text, open, close, j) ==
    IF ~OccursAtCI(text, open, j) THEN 0
    ELSE LET gt == IndexFrom(text, ">", j + Len(open))
         IN IF gt = 0 THEN 0
            ELSE LET c == FindFromCI(text, close, gt + 1)
                 IN IF c = 0 THEN 0 ELSE c + Len(close) - 1

\* re.sub(r"<name[^>]*>.*?</name>", "", text)
RECURSIVE RemoveBlocksFrom(_, _, _, _)
RemoveBlocksFrom(text, open, close, j) ==
    LET starts == {k \in j..Len(text) : BlockEnd(text, open, close, k) > 0}
    IN IF starts = {} THEN SubSeq(text, j, Len(text))
       ELSE LET k == SetMin(starts)
            IN SubSeq(text, j, k - 1)
                  \o RemoveBlocksFrom(text, open, close, BlockEnd(text, open, close, k) + 1)

\* the last position of a match of <[^>]+> that begins at j, 0 when none
TagEnd(text, j) ==
    IF text[j] # "<" THEN 0
    ELSE LET gt == IndexFrom(text, ">", j + 1)
         IN IF gt >= j + 2 THEN gt ELSE 0

\* re.sub(r"<[^>]+>", "", text)
RECURSIVE RemoveTagsFrom(_, _)
RemoveTagsFrom(text, j) ==
    LET starts == {k \in j..Len(text) : TagEnd(text, k) > 0}
    IN IF starts = {} THEN SubSeq(text, j, Len(text))
       ELSE LET k == SetMin(starts)
            IN SubSeq(text, j, k - 1) \o RemoveTagsFrom(text, TagEnd(text, k) + 1)

\* the last position of a match of &[a-zA-Z]+; that begins at j, 0 when none
EntityEnd(text, j) ==
    IF text[j] # "&" THEN 0
    ELSE LET stops == {k \in (j + 1)..Len(text) : ~IsAsciiLetter(text[k])}
         IN IF stops = {} THEN 0
            ELSE LET k == SetMin(stops)
                 IN IF k >= j + 2 /\ text[k] = ";" THEN k ELSE 0

\* re.sub(r"&[a-zA-Z]+;", " ", text)
RECURSIVE ReplaceEntitiesFrom(_, _)
ReplaceEntitiesFrom(text, j) ==
    LET starts == {k \in j..Len(text) : EntityEnd(text, k) > 0}
    IN IF starts = {} THEN SubSeq(text, j, Len(text))
       ELSE LET k == SetMin(starts)
            IN SubSeq(text, j, k - 1) \o <<" ">>
                  \o ReplaceEntitiesFrom(text, EntityEnd(text, k) + 1)

\* re.sub(r"\s+", " ", text): every run of whitespace becomes one space
CollapseSpaces(text) ==
    LET kept == SelectSeq([j \in 1..Len(text) |-> j],
                          LAMBDA j : ~IsSpace(text[j]) \/ j = 1 \/ ~IsSpace(text[j - 1]))
    IN [i \in 1..Len(kept) |-> IF IsSpace(text[kept[i]]) THEN " " ELSE text[kept[i]]]

TagScriptOpen == <<"<", "s", "c", "r", "i", "p", "t">>
TagScriptClose == <<"<", "/", "s", "c", "r", "i", "p", "t", ">">>
TagStyleOpen == <<"<", "s", "t", "y", "l", "e">>
TagStyleClose == <<"<", "/", "s", "t", "y", "l", "e", ">">>

_clean_html(text) ==
    LET t1 == RemoveBlocksFrom(text, TagScriptOpen, TagScriptClose, 1)
        t2 == RemoveBlocksFrom(t1, TagStyleOpen, TagStyleClose, 1)
        t3 == RemoveTagsFrom(t2, 1)
        t4 == ReplaceEntitiesFrom(t3, 1)
    IN Strip(CollapseSpaces(t4))

\* hashlib.md5(raw.encode()).hexdigest(): a digest determined by the string
\* it is taken of (no two strings of the model share a digest)
Md5(raw) == <<"md5", raw>>

\* raw is the string f"{source_id}_chunk_{chunk_index}", kept as its parts
_generate_chunk_id(source_id, chunk_index) ==
    Md5(<<source_id, "_chunk_", chunk_index>>)

\* metadata.get(key, default)
MetaGet(metadata, key, default) ==
    IF key \in DOMAIN metadata THEN metadata[key] ELSE default

\* {**metadata, key: value}
MetaWith(metadata, key, value) ==
    [k \in DOMAIN metadata \cup {key} |-> IF k = key THEN value ELSE metadata[k]]

\* _append_chunk numbering the chunks from 1
AppendChunkOneBased(chunks, text, metadata, source_id) ==
    LET idx == Len(chunks) + 1
    IN Append(chunks, [id |-> _generate_chunk_id(source_id, idx),
                       text |-> text,
                       metadata |-> MetaWith(metadata, "chunk_index", idx)])

\* _append_chunk: the list with the new chunk at its end
_append_chunk(chunks, text, metadata, source_id) ==
    LET idx == Len(chunks)
    IN Append(chunks, [id |-> _generate_chunk_id(source_id, idx),
                       text |-> text,
                       metadata |-> MetaWith(metadata, "chunk_index", idx)])

\* the lookahead 'je' \d+ 'jo' [\s(] matches at position j of t
ArticleStartAt(t, j) ==
    /\ t[j] = "K_je"
    /\ \E k \in (j + 2)..(Len(t) - 1) :
          /\ \A d \in (j + 1)..(k - 1) : t[d] \in Digits
          /\ t[k] = "K_jo"
          /\ (IsSpace(t[k + 1]) \/ t[k + 1] = "(")

\* re.split on a zero-width pattern matching at the positions `points`:
\* the text is cut before each of them (a match at the first position
\* leaves an empty first piece)
SplitBefore(t, points) ==
    LET starts == <<1>> \o SortedSeq(points)
    IN [i \in 1..Len(starts) |->
          SubSeq(t, starts[i],
                 IF i < Len(starts) THEN starts[i + 1] - 1 ELSE Len(t))]

\* [s.strip() for s in segments if s.strip()]
RECURSIVE StripAndDropEmpty(_)
StripAndDropEmpty(pieces) ==
    IF pieces = <<>> THEN <<>>
    ELSE (IF Strip(Head(pieces)) = <<>> THEN <<>> ELSE <<Strip(Head(pieces))>>)
            \o StripAndDropEmpty(Tail(pieces))

\* WindowsFrom stepping by chunk_size + overlap (the sign of the overlap wrong)
RECURSIVE WindowsStepPlus(_, _, _, _, _, _, _)
WindowsStepPlus(chunks, segment, i, chunk_size, overlap, metadata, source_id) ==
    IF i >= Len(segment) THEN chunks
    ELSE LET hi == IF i + chunk_size <= Len(segment) THEN i + chunk_size
                   ELSE Len(segment)
             sub == Strip(SubSeq(segment, i + 1, hi))
             ident == <<"md5", <<source_id, "_chunk_", Len(chunks)>> >>
             next == IF sub = <<>> THEN chunks
                     ELSE Append(chunks,
                            [id |-> ident, text |-> sub,
                             metadata |-> [k \in DOMAIN metadata \cup {"chunk_index"} |->
                                 IF k = "chunk_index" THEN Len(chunks) ELSE metadata[k]]])
         IN WindowsStepPlus(next, segment, i + (chunk_size + overlap), chunk_size,
                            overlap, metadata, source_id)

\* The windows of an oversized segment:
\*   for i in range(0, len(segment), chunk_size - overlap):
\*       sub = segment[i : i + chunk_size].strip(); if sub: _append_chunk(...)
\* st is the loop state [chunks, current, raised]; range() raises ValueError
\* for a step of 0 and is empty for a negative step.
RECURSIVE WindowsFrom(_, _, _, _, _, _, _)
WindowsFrom(chunks, segment, i, chunk_size, overlap, metadata, source_id) ==
    IF i >= Len(segment) THEN chunks
    ELSE LET hi == IF i + chunk_size <= Len(segment) THEN i + chunk_size
                   ELSE Len(segment)
             sub == Strip(SubSeq(segment, i + 1, hi))
             next == IF sub = <<>> THEN chunks
                     ELSE _append_chunk(chunks, sub, metadata, source_id)
         IN WindowsFrom(next, segment, i + (chunk_size - overlap), chunk_size,
                        overlap, metadata, source_id)

SplitOversized(st, segment, chunk_size, overlap, metadata, source_id) ==
    IF chunk_size - overlap = 0
      THEN [st EXCEPT !.raised = TRUE]
    ELSE IF chunk_size - overlap < 0
      THEN [st EXCEPT !.current = <<>>]
    ELSE [st EXCEPT !.chunks = WindowsFrom(st.chunks, segment, 0, chunk_size,
                                           overlap, metadata, source_id),
                    !.current = <<>>]

\* FitsBuffer without the separating space counted
FitsBufferNoSeparator(current, segment, chunk_size) ==
    Len(current) + Len(segment) <= chunk_size

\* FitsBuffer that refuses a segment which fills the buffer exactly
FitsBufferStrict(current, segment, chunk_size) ==
    Len(current) + Len(segment) + 1 < chunk_size

\* the condition under which the loop adds the segment to the buffer
FitsBuffer(current, segment, chunk_size) ==
    Len(current) + Len(segment) + 1 <= chunk_size

\* one iteration of `for segment in segments`
ChunkLoopStep(st, segment, chunk_size, overlap, metadata, source_id) ==
    IF st.raised THEN st
    ELSE IF FitsBuffer(st.current, segment, chunk_size)
      THEN [st EXCEPT !.current =
               st.current \o (IF st.current # <<>> THEN <<" ">> ELSE <<>>) \o segment]
    ELSE LET flushed ==
                 IF st.current # <<>>
                   THEN [st EXCEPT !.chunks =
                            _append_chunk(st.chunks, st.current, metadata, source_id)]
                   ELSE st
         IN IF Len(segment) > chunk_size
              THEN SplitOversized(flushed, segment, chunk_size, overlap,
                                  metadata, source_id)
              ELSE [flushed EXCEPT !.current = segment]

RECURSIVE ChunkLoop(_, _, _, _, _, _)
ChunkLoop(st, segments, chunk_size, overlap, metadata, source_id) ==
    IF segments = <<>> THEN st
    ELSE ChunkLoop(ChunkLoopStep(st, Head(segments), chunk_size, overlap,
                                 metadata, source_id),
                   Tail(segments), chunk_size, overlap, metadata, source_id)

\* the buffer loop and the final flush shared by chunk_law_text and
\* chunk_precedent_text; the result is [raised, chunks]
ChunkSegments(segments, chunk_size, overlap, metadata, source_id) ==
    LET st == ChunkLoop([chunks |-> <<>>, current |-> <<>>, raised |-> FALSE],
                        segments, chunk_size, overlap, metadata, source_id)
    IN IF st.raised THEN [raised |-> TRUE, chunks |-> <<>>]
       ELSE IF Strip(st.current) # <<>>
         THEN [raised |-> FALSE,
               chunks |-> _append_chunk(st.chunks, Strip(st.current), metadata,
                                        source_id)]
       ELSE [raised |-> FALSE, chunks |-> st.chunks]

\* the article-aligned segments of a cleaned text
LawSegments(cleaned) ==
    LET points == {j \in 1..Len(cleaned) : ArticleStartAt(cleaned, j)}
        segments == StripAndDropEmpty(SplitBefore(cleaned, points))
    IN IF segments = <<>> THEN <<cleaned>> ELSE segments

chunk_law_text(text, metadata, chunk_size, overlap) ==
    LET cleaned == _clean_html(text)
    IN IF cleaned = <<>> THEN [raised |-> FALSE, chunks |-> <<>>]
       ELSE ChunkSegments(LawSegments(cleaned), chunk_size, overlap, metadata,
                          MetaGet(metadata, "source_id", "unknown"))

SECTION_HEADERS ==
    << <<"K_pan", "K_si", "K_sa", "K_hang">>, <<"K_pan", "K_gyeol", "K_yo", "K_ji">>,
       <<"K_cham", "K_jo", "K_jo", "K_mun">>, <<"K_cham", "K_jo", "K_pan", "K_rye">>,
       <<"K_pan", "K_rye", "K_nae", "K_yong">>, <<"K_i", "K_yu">>,
       <<"K_ju", "K_mun">>, <<"K_cheong", "K_gu", "K_chwi", "K_ji">> >>

HeaderNames == {SECTION_HEADERS[h] : h \in DOMAIN SECTION_HEADERS}

\* the header name the lookahead \[(name|...)\] captures at position j,
\* <<>> when it does not match there
HeaderAt(t, j) ==
    LET hits == {h \in DOMAIN SECTION_HEADERS :
                    /\ t[j] = "["
                    /\ OccursAt(t, SECTION_HEADERS[h], j + 1)
                    /\ j + Len(SECTION_HEADERS[h]) + 1 <= Len(t)
                    /\ t[j + Len(SECTION_HEADERS[h]) + 1] = "]"}
    IN IF hits = {} THEN <<>> ELSE SECTION_HEADERS[SetMin(hits)]

\* re.split on the zero-width pattern with its capturing group: the pieces
\* of the text, each cut followed by the captured header name
SplitWithCapture(t, points) ==
    LET starts == <<1>> \o SortedSeq(points)
        piece(i) == SubSeq(t, starts[i],
                           IF i < Len(starts) THEN starts[i + 1] - 1 ELSE Len(t))
    IN [n \in 1..(2 * Len(starts) - 1) |->
          IF n % 2 = 1 THEN piece((n + 1) \div 2)
          ELSE HeaderAt(t, starts[(n \div 2) + 1])]

\* the while loop that merges a header name with the element after it
RECURSIVE MergeHeaders(_, _)
MergeHeaders(segments, i) ==
    IF i > Len(segments) THEN <<>>
    ELSE LET seg == Strip(segments[i])
         IN IF seg \in HeaderNames
              THEN IF i + 1 <= Len(segments)
                     THEN << <<"[">> \o seg \o <<"]", " ">> \o Strip(segments[i + 1]) >>
                             \o MergeHeaders(segments, i + 2)
                     ELSE << <<"[">> \o seg \o <<"]">> >> \o MergeHeaders(segments, i + 1)
              ELSE (IF seg # <<>> THEN <<seg>> ELSE <<>>) \o MergeHeaders(segments, i + 1)

\* the section-aligned segments of a cleaned text
PrecedentSegments(cleaned) ==
    LET points == {j \in 1..Len(cleaned) : HeaderAt(cleaned, j) # <<>>}
        merged == MergeHeaders(SplitWithCapture(cleaned, points), 1)
    IN IF merged = <<>> THEN <<cleaned>> ELSE merged

chunk_precedent_text(text, metadata, chunk_size, overlap) ==
    LET cleaned == _clean_html(text)
    IN IF cleaned = <<>> THEN [raised |-> FALSE, chunks |-> <<>>]
       ELSE ChunkSegments(PrecedentSegments(cleaned), chunk_size, overlap, metadata,
                          MetaGet(metadata, "source_id", "unknown"))

\* chunk_size and chunk_overlap of get_legal_text_splitter("law")
SplitterChunkSize == 800
SplitterOverlap == 150

\* text_splitter.split_text(segment) of the langchain library, which is not
\* part of the repository: pieces of at most SplitterChunkSize characters
\* that overlap by at most SplitterOverlap; the model takes fixed windows
RECURSIVE SplitTextFrom(_, _)
SplitTextFrom(segment, i) ==
    IF i >= Len(segment) THEN <<>>
    ELSE LET hi == IF i + SplitterChunkSize <= Len(segment) THEN i + SplitterChunkSize
                   ELSE Len(segment)
         IN <<SubSeq(segment, i + 1, hi)>>
               \o SplitTextFrom(segment, i + (SplitterChunkSize - SplitterOverlap))

\* the Documents one segment contributes
RECURSIVE AppendDocuments(_, _, _, _)
AppendDocuments(documents, pieces, metadata, source_type) ==
    IF pieces = <<>> THEN documents
    ELSE AppendDocuments(
            Append(documents,
                   [page_content |-> Head(pieces),
                    metadata |-> MetaWith(MetaWith(metadata, "chunk_index", Len(documents)),
                                          "source_type", source_type)]),
            Tail(pieces), metadata, source_type)

RECURSIVE AdvancedLoop(_, _, _, _)
AdvancedLoop(documents, segments, metadata, source_type) ==
    IF segments = <<>> THEN documents
    ELSE LET segment == Head(segments)
             pieces == IF Len(segment) > SplitterChunkSize
                         THEN SplitTextFrom(segment, 0) ELSE <<segment>>
         IN AdvancedLoop(AppendDocuments(documents, pieces, metadata, source_type),
                         Tail(segments), metadata, source_type)

\* chunk_law_text_advanced: the list of Documents
chunk_law_text_advanced(text, metadata) ==
    LET cleaned == _clean_html(text)
    IN IF cleaned = <<>> THEN <<>>
       ELSE AdvancedLoop(<<>>, LawSegments(cleaned), metadata, "law")

(***************************************************************************)
(* The chunkers applied to bounded inputs                                  *)
(***************************************************************************)
MaxPieces == 3

ArticlePiece == <<"K_je", "1", "K_jo", " ">>
HeaderPiece == <<"[", "K_i", "K_yu", "]">>
TagPiece == <<"<", "b", ">">>

ChunkPieces == {<<"a">>, <<"b">>, <<" ">>, ArticlePiece, HeaderPiece, TagPiece}

RECURSIVE PieceTexts(_)
PieceTexts(n) ==
    IF n = 0 THEN {<<>>}
    ELSE PieceTexts(n - 1) \cup {t \o p : t \in PieceTexts(n - 1), p \in ChunkPieces}

ChunkTexts == PieceTexts(MaxPieces)

\* parent metadata: of a statute, of a store policy without source_id, and of
\* a statute chunk read back from laws.json (it carries a chunk_index)
MetaLaw == [source_type |-> "law", source_id |-> "law_1", law_name |-> "L"]
MetaPolicy == [source_type |-> "store_policy", store |-> "apple"]
MetaStored == [source_type |-> "law", source_id |-> "law_2", chunk_index |-> 7]

\* (chunk_size, overlap, metadata) of a call
ChunkCalls ==
    { <<7, 2, MetaLaw>>, <<6, 0, MetaPolicy>>, <<3, 1, MetaStored>>,
      <<2, 1, MetaLaw>>, <<3, 3, MetaPolicy>>, <<2, 3, MetaLaw>> }

NoOutput == [fn |-> "none"]

ChunkInit ==
    /\ cText \in ChunkTexts
    /\ \E args \in ChunkCalls :
          /\ cSize = args[1]
          /\ cOverlap = args[2]
          /\ cMeta = args[3]
    /\ cOut = NoOutput

ChunkIdle ==
    /\ cText = <<>>
    /\ cSize = 0
    /\ cOverlap = 0
    /\ cMeta = MetaLaw
    /\ cOut = NoOutput

CallChunkLawText ==
    /\ cOut = NoOutput
    /\ LET r == chunk_law_text(cText, cMeta, cSize, cOverlap)
       IN cOut' = [fn |-> "chunk_law_text", raised |-> r.raised, chunks |-> r.chunks]
    /\ UNCHANGED <<cText, cMeta, cSize, cOverlap>>

CallChunkPrecedentText ==
    /\ cOut = NoOutput
    /\ LET r == chunk_precedent_text(cText, cMeta, cSize, cOverlap)
       IN cOut' = [fn |-> "chunk_precedent_text", raised |-> r.raised,
                   chunks |-> r.chunks]
    /\ UNCHANGED <<cText, cMeta, cSize, cOverlap>>

CallChunkLawTextAdvanced ==
    /\ cOut = NoOutput
    /\ cOut' = [fn |-> "chunk_law_text_advanced", raised |-> FALSE,
                chunks |-> chunk_law_text_advanced(cText, cMeta)]
    /\ UNCHANGED <<cText, cMeta, cSize, cOverlap>>

(***************************************************************************)
(* The filter applied to bounded inputs                                    *)
(***************************************************************************)
MaxPad == 1
NoiseCounts == {0, 2, 3}

\* the CSS snippet of the noise-rejection test: one noise match each
CssSnippet ==
    <<"f", "o", "n", "t", "-", "f", "a", "m", "i", "l", "y", ":", " ", "A",
      "r", "i", "a", "l", ";", " ", ".", "b", "t", "n", "{", "c", "o", "l",
      "o", "r", ":", "r", "e", "d", "}">>

SourceTypes == {"law", "precedent", "store_policy"}

SlashCounts == {0, 5, 6}
FillerLens == {0, 47, 76, 92, 97}

\* keyword material: nothing, one or two keywords of a type, and a
\* precedent keyword that contains a statute keyword
KeywordParts ==
    { <<>>,
      <<"K_je">>,
      <<"K_je", "1", "K_jo">>,
      <<"K_pan", "K_rye">>,
      <<"K_pan", "K_gyeol", "K_yo", "K_ji">>,
      <<"K_aep">>,
      <<"K_aep", "K_jeong", "K_chaek">>,
      <<"K_beop", "K_won">> }

FilterText(lead, noise, slashes, kw, filler, trail) ==
    Rep(" ", lead) \o Times(CssSnippet, noise) \o Rep("/", slashes) \o kw
        \o Rep("x", filler) \o Rep(" ", trail)

FilterInputs ==
    { FilterText(lead, noise, slashes, kw, filler, trail) :
        lead \in 0..MaxPad, noise \in NoiseCounts, slashes \in SlashCounts,
        kw \in KeywordParts, filler \in FillerLens, trail \in 0..MaxPad }

FilterInit ==
    /\ fText \in FilterInputs
    /\ fType \in SourceTypes
    /\ fResult = <<>>

FilterIdle ==
    /\ fText = <<>>
    /\ fType = "law"
    /\ fResult = <<>>

\* one call of validate_legal_document(fText, fType)
FilterValidate ==
    /\ fResult = <<>>
    /\ fResult' = <<validate_legal_document(fText, fType)>>
    /\ UNCHANGED <<fText, fType>>

(***************************************************************************)
(* The VectorStore                                                         *)
(***************************************************************************)
COLLECTION_LAWS == "laws"
COLLECTION_PRECEDENTS == "precedents"
COLLECTION_POLICIES == "store_policies"
ALL_COLLECTIONS == <<COLLECTION_LAWS, COLLECTION_PRECEDENTS, COLLECTION_POLICIES>>
Collections == {ALL_COLLECTIONS[i] : i \in DOMAIN ALL_COLLECTIONS}

\* A dict is the sequence of its entries [id, text, metadata] in insertion
\* order, at most one entry per id.
DictIds(d) == {d[i].id : i \in DOMAIN d}
DictEntry(id, text, meta) == [id |-> id, text |-> text, metadata |-> meta]

\* an assignment that appends without looking for the key
DictSetAppending(d, id, text, meta) == Append(d, DictEntry(id, text, meta))

\* self._docs[doc_id] = {"text": text, "metadata": meta}
DictSet(d, id, text, meta) ==
    IF id \in DictIds(d)
    THEN [i \in DOMAIN d |-> IF d[i].id = id THEN DictEntry(id, text, meta) ELSE d[i]]
    ELSE Append(d, DictEntry(id, text, meta))

\* the loop of upsert over zip(ids, documents, metadatas), from element k
RECURSIVE UpsertLoop(_, _, _)
UpsertLoop(d, batch, k) ==
    IF k > Len(batch) THEN d
    ELSE UpsertLoop(DictSet(d, batch[k].id, batch[k].text, batch[k].metadata),
                    batch, k + 1)

\* what upsert makes of the dict before it calls _save
UpsertDocs(d, batch) == UpsertLoop(d, batch, 1)

count(d) == Len(d)

\* a dump that writes the first member only
json_dumpFirstOnly(d) ==
    IF d = <<>> THEN <<>>
    ELSE << <<d[1].id, [text |-> d[1].text, metadata |-> d[1].metadata]>> >>

\* json.dump(self._docs, f): the members of one JSON object in insertion
\* order, each the id and the object {"text": ..., "metadata": ...}
json_dump(d) ==
    [i \in DOMAIN d |-> <<d[i].id, [text |-> d[i].text, metadata |-> d[i].metadata]>>]

\* json.load(f): the dict of the members, from member k on
RECURSIVE LoadMembers(_, _, _)
LoadMembers(d, members, k) ==
    IF k > Len(members) THEN d
    ELSE LoadMembers(DictSet(d, members[k][1], members[k][2].text,
                             members[k][2].metadata),
                     members, k + 1)

json_load(members) == LoadMembers(<<>>, members, 1)

\* The file of a collection: absent, or present with text that json.load
\* parses (the members of the object), or present with text json.load
\* rejects (an empty or cut file).
FileAbsent == [exists |-> FALSE, parses |-> FALSE, docs |-> <<>>]
FileCut == [exists |-> TRUE, parses |-> FALSE, docs |-> <<>>]
FileOf(d) == [exists |-> TRUE, parses |-> TRUE, docs |-> json_dump(d)]

\* _load on a fresh instance, whose _docs is {}
_load(f) == IF f.exists /\ f.parses THEN json_load(f.docs) ELSE <<>>

\* get_or_create_collection(name): the cached instance, or a new one
\* that loads the file
StoresWith(name) == _stores \cup {name}
DocsWith(name) ==
    IF name \in _stores THEN _docs ELSE [_docs EXCEPT ![name] = _load(file[name])]

SaveIdle == [pc |-> "idle", coll |-> COLLECTION_LAWS]
NoUpsert == [coll |-> "none", batch |-> <<>>, pre |-> <<>>]
NoCall ==
    [op |-> "none", status |-> "idle", coll |-> "none", items |-> <<>>, idx |-> 0,
     total_chunks |-> 0, failed_items |-> <<>>, value |-> 0]

IngestOps == {"ingest_laws", "ingest_precedents", "ingest_store_policies"}

\* the caller of upsert after upsert returned
AfterUpsert(c) ==
    IF c.op \in IngestOps
    THEN [c EXCEPT !.total_chunks = @ + Len(up.batch), !.idx = @ + 1]
    ELSE [c EXCEPT !.status = "returned"]

\* the caller of upsert after upsert raised: ingest_laws and
\* ingest_precedents catch Exception, record the item and continue;
\* ingest_store_policies and a direct caller let it through
AfterUpsertRaised(c) ==
    IF c.op \in {"ingest_laws", "ingest_precedents"}
    THEN [c EXCEPT !.failed_items = Append(@, "exception"), !.idx = @ + 1]
    ELSE [c EXCEPT !.status = "raised"]

MaxOps == 2
MaxFailures == 1
MaxRestarts == 1

CanStart == call.status # "running" /\ sv.pc = "idle" /\ ops < MaxOps

\* upsert up to its call of _save: the dict is updated first
BeginUpsert(name, batch) ==
    /\ _stores' = StoresWith(name)
    /\ _docs' = [DocsWith(name) EXCEPT ![name] = UpsertDocs(@, batch)]
    /\ up' = [coll |-> name, batch |-> batch, pre |-> DocsWith(name)[name]]
    /\ sv' = [pc |-> "open", coll |-> name]

\* _save: open(self._file_path, "w") truncates the file
SaveOpen ==
    /\ sv.pc = "open"
    /\ file' = [file EXCEPT ![sv.coll] = FileCut]
    /\ sv' = [sv EXCEPT !.pc = "write"]
    /\ UNCHANGED <<_stores, _docs, call, up, ioFailed, ops, failures, restarts>>

\* _save: json.dump and the close of the with block put the whole dict there
SaveWrite ==
    /\ sv.pc = "write"
    /\ file' = [file EXCEPT ![sv.coll] = FileOf(_docs[sv.coll])]
    /\ sv' = SaveIdle
    /\ call' = AfterUpsert(call)
    /\ UNCHANGED <<_stores, _docs, up, ioFailed, ops, failures, restarts>>

\* _save raises OSError: at makedirs or open the file is as it was, at a
\* write or the close it stays cut
SaveFail ==
    /\ sv.pc \in {"open", "write"}
    /\ failures < MaxFailures
    /\ failures' = failures + 1
    /\ ioFailed' = TRUE
    /\ sv' = SaveIdle
    /\ call' = AfterUpsertRaised(call)
    /\ UNCHANGED <<_stores, _docs, file, up, ops, restarts>>

\* the process ends at any point and a new one starts with no instance
Restart ==
    /\ restarts < MaxRestarts
    /\ restarts' = restarts + 1
    /\ _stores' = {}
    /\ _docs' = [c \in Collections |-> <<>>]
    /\ sv' = SaveIdle
    /\ call' = NoCall
    /\ up' = NoUpsert
    /\ ioFailed' = FALSE
    /\ UNCHANGED <<file, ops, failures>>

StoreInit ==
    /\ _stores = {}
    /\ _docs = [c \in Collections |-> <<>>]
    /\ file = [c \in Collections |-> FileAbsent]
    /\ sv = SaveIdle
    /\ call = NoCall
    /\ up = NoUpsert
    /\ ioFailed = FALSE
    /\ ops = 0
    /\ failures = 0
    /\ restarts = 0

\* batches a direct caller hands to upsert
ApiChunk(source_id, chunk_index, text) ==
    DictEntry(_generate_chunk_id(source_id, chunk_index), text,
              [source_id |-> source_id, chunk_index |-> chunk_index])

ApiBatches ==
    { <<ApiChunk("s1", 0, <<"a">>), ApiChunk("s1", 1, <<"a">>)>>,
      <<ApiChunk("s1", 0, <<"b">>)>>,
      <<ApiChunk("s2", 0, <<"a">>)>>,
      <<ApiChunk("s1", 1, <<"b">>), ApiChunk("s1", 1, <<"c">>)>>,
      <<>> }

\* get_or_create_collection(name).upsert(ids, documents, metadatas)
StoreUpsert ==
    /\ CanStart
    /\ \E name \in Collections, batch \in ApiBatches : BeginUpsert(name, batch)
    /\ call' = [NoCall EXCEPT !.op = "upsert", !.status = "running"]
    /\ ioFailed' = FALSE
    /\ ops' = ops + 1
    /\ UNCHANGED <<file, failures, restarts>>

\* a clear that removes the file and leaves the dict of the instance
StoreClearFileOnly ==
    /\ CanStart
    /\ \E name \in Collections :
          /\ _stores' = StoresWith(name)
          /\ _docs' = DocsWith(name)
          /\ file' = [file EXCEPT ![name] = FileAbsent]
          /\ up' = IF up.coll = name THEN NoUpsert ELSE up
          /\ call' = [NoCall EXCEPT !.op = "clear", !.status = "returned", !.coll = name]
    /\ ioFailed' = FALSE
    /\ ops' = ops + 1
    /\ UNCHANGED <<sv, failures, restarts>>

\* get_or_create_collection(name).clear()
StoreClear ==
    /\ CanStart
    /\ \E name \in Collections :
          /\ _stores' = StoresWith(name)
          /\ _docs' = [DocsWith(name) EXCEPT ![name] = <<>>]
          /\ file' = [file EXCEPT ![name] = FileAbsent]
          /\ up' = IF up.coll = name THEN NoUpsert ELSE up
          /\ call' = [NoCall EXCEPT !.op = "clear", !.status = "returned", !.coll = name]
    /\ ioFailed' = FALSE
    /\ ops' = ops + 1
    /\ UNCHANGED <<sv, failures, restarts>>

(***************************************************************************)
(* Ingestion                                                               *)
(***************************************************************************)
LawChunkSize == 800
LawOverlap == 150
PrecedentChunkSize == 1200
PrecedentOverlap == 300

\* str(n) of a non-negative integer
DigitChars == <<"0", "1", "2", "3", "4", "5", "6", "7", "8", "9">>
RECURSIVE Str(_)
Str(n) ==
    IF n < 10 THEN <<DigitChars[n + 1]>>
    ELSE Str(n \div 10) \o <<DigitChars[(n % 10) + 1]>>

\* texts the sources deliver
LawTextX == <<"K_je", "1", "K_jo">> \o Rep("x", 97)
LawTextY == <<"K_je", "1", "K_jo">> \o Rep("y", 97)
PrecedentText == <<"K_pan", "K_gyeol", "K_yo", "K_ji">> \o Rep("x", 76)
PolicyText == <<"K_aep", "K_jeong", "K_chaek">> \o Rep("x", 47)
PolicyTextY == <<"K_aep", "K_jeong", "K_chaek">> \o Rep("y", 47)
CssNoise == Times(CssSnippet, 5)

\* what search_laws and get_law_detail deliver about a statute
LawCatalog ==
    << [law_id |-> <<"1">>, law_name |-> <<"A">>, content |-> LawTextX],
       [law_id |-> <<"1">>, law_name |-> <<"A">>, content |-> LawTextY],
       [law_id |-> <<"2">>, law_name |-> <<"B">>, content |-> CssNoise],
       [law_id |-> <<>>, law_name |-> <<"C">>, content |-> LawTextX],
       [law_id |-> <<"3">>, law_name |-> <<"D">>, content |-> <<>>] >>

\* what search_precedents and get_precedent_detail deliver about a case
PrecedentCatalog ==
    << [prec_seq |-> <<"7">>, case_name |-> <<"E">>, content |-> PrecedentText],
       [prec_seq |-> <<"8">>, case_name |-> <<"F">>, content |-> CssNoise],
       [prec_seq |-> <<"9">>, case_name |-> <<"G">>, content |-> <<>>] >>

\* policies as a caller hands them to ingest_store_policies
PolicyCatalog ==
    << [text |-> PolicyText, metadata |-> [store |-> <<"i", "o", "s">>, section |-> <<"4">>]],
       [text |-> CssNoise,
        metadata |-> [store |-> <<"w", "e", "b">>, section |-> <<"5">>,
                      subsection |-> <<"2">>]],
       [text |-> <<>>, metadata |-> [store |-> <<"i", "o", "s">>, section |-> <<"6">>]],
       [text |-> PolicyTextY,
        metadata |-> [store |-> <<"i", "o", "s">>, section |-> <<"4">>,
                      subsection |-> <<"0">>]] >>

\* result lists of the sources, as positions in the catalogs
LawResults == { <<1>>, <<1, 2>>, <<3, 2>>, <<4, 5, 1>> }
PrecedentResults == { <<1>>, <<2, 1>>, <<3, 1>> }
PolicyLists == { <<1>>, <<2>>, <<3, 1>>, <<1, 1>>, <<1, 4>> }
PolicyPositions == UNION {DOMAIN policies : policies \in PolicyLists}

\* the metadata ingest_laws builds
LawMetadata(law) ==
    [source_type |-> "law",
     source_id |-> <<"l", "a", "w", "_">> \o law.law_id,
     law_id |-> law.law_id,
     law_name |-> law.law_name,
     proclamation_date |-> <<>>,
     enforcement_date |-> <<>>,
     source_url |-> <<"https://www.law.go.kr/", "K_beop", "K_ryeong", "/">> \o law.law_name]

\* the metadata ingest_precedents builds
PrecedentMetadata(prec) ==
    [source_type |-> "precedent",
     source_id |-> <<"p", "r", "e", "c", "_">> \o prec.prec_seq,
     precedent_seq |-> prec.prec_seq,
     case_name |-> prec.case_name,
     court_name |-> <<>>,
     judgment_date |-> <<>>,
     case_number |-> <<>>,
     case_type |-> <<>>,
     source_url |-> <<"https://www.law.go.kr/", "K_pan", "K_rye", "/">> \o prec.case_name]

\* the metadata ingest_store_policies completes for the policy at position idx
PolicyMetadata(policy, idx) ==
    LET m == IF "source_type" \in DOMAIN policy.metadata THEN policy.metadata
             ELSE MetaWith(policy.metadata, "source_type", "store_policy")
        source_id ==
            MetaGet(m, "source_id",
                    MetaGet(m, "store", <<"u", "n", "k", "n", "o", "w", "n">>)
                        \o <<"_">>
                        \o MetaGet(m, "section", <<"u", "n", "k", "n", "o", "w", "n">>)
                        \o <<"_">>
                        \o MetaGet(m, "subsection", Str(idx)))
    IN MetaWith(m, "source_id", source_id)

\* the filter's verdicts and the chunkers' outputs on the catalogs
LawAccepted ==
    [i \in DOMAIN LawCatalog |-> validate_legal_document(LawCatalog[i].content, "law")]

LawChunks ==
    [i \in DOMAIN LawCatalog |->
        chunk_law_text(LawCatalog[i].content, LawMetadata(LawCatalog[i]),
                       LawChunkSize, LawOverlap).chunks]

PrecedentAccepted ==
    [i \in DOMAIN PrecedentCatalog |->
        validate_legal_document(PrecedentCatalog[i].content, "precedent")]

PrecedentChunks ==
    [i \in DOMAIN PrecedentCatalog |->
        chunk_precedent_text(PrecedentCatalog[i].content,
                             PrecedentMetadata(PrecedentCatalog[i]),
                             PrecedentChunkSize, PrecedentOverlap).chunks]

\* by policy and by its position in the list, counted from 1
PolicyChunks ==
    [i \in DOMAIN PolicyCatalog |->
        [pos \in PolicyPositions |->
            chunk_law_text(PolicyCatalog[i].text,
                           PolicyMetadata(PolicyCatalog[i], pos - 1),
                           LawChunkSize, LawOverlap).chunks]]

Running(op) == call.op = op /\ call.status = "running" /\ sv.pc = "idle"

StartedCall(op, items) ==
    [NoCall EXCEPT !.op = op, !.status = "running", !.items = items, !.idx = 1]

\* the loop goes on to the next item
NextItem == call' = [call EXCEPT !.idx = @ + 1]
NextItemFailed(reason) ==
    call' = [call EXCEPT !.idx = @ + 1, !.failed_items = Append(@, reason)]

\* ingest_laws(query) up to its loop: the store and the search, which may raise
IngestLaws ==
    /\ CanStart
    /\ _stores' = StoresWith(COLLECTION_LAWS)
    /\ _docs' = DocsWith(COLLECTION_LAWS)
    /\ \/ \E laws \in LawResults : call' = StartedCall("ingest_laws", laws)
       \/ call' = [NoCall EXCEPT !.op = "ingest_laws", !.status = "returned"]
    /\ ioFailed' = FALSE
    /\ ops' = ops + 1
    /\ UNCHANGED <<file, sv, up, failures, restarts>>

\* a loop that a rejected document ends
IngestLawItemStopping ==
    /\ Running("ingest_laws")
    /\ call.idx <= Len(call.items)
    /\ LET i == call.items[call.idx]
           law == LawCatalog[i]
       IN IF law.law_id = <<>> \/ law.content = <<>>
          THEN NextItem /\ UNCHANGED <<_stores, _docs, sv, up>>
          ELSE IF ~LawAccepted[i]
          THEN /\ call' = [call EXCEPT !.idx = Len(call.items) + 1,
                                       !.failed_items = Append(@, "validation_failed")]
               /\ UNCHANGED <<_stores, _docs, sv, up>>
          ELSE IF LawChunks[i] = <<>>
          THEN NextItem /\ UNCHANGED <<_stores, _docs, sv, up>>
          ELSE BeginUpsert(COLLECTION_LAWS, LawChunks[i]) /\ UNCHANGED call
    /\ UNCHANGED <<file, ioFailed, ops, failures, restarts>>

\* one turn of the loop of ingest_laws, up to the _save inside upsert
IngestLawItem ==
    /\ Running("ingest_laws")
    /\ call.idx <= Len(call.items)
    /\ LET i == call.items[call.idx]
           law == LawCatalog[i]
       IN IF law.law_id = <<>> \/ law.content = <<>>
          THEN NextItem /\ UNCHANGED <<_stores, _docs, sv, up>>
          ELSE IF ~LawAccepted[i]
          THEN NextItemFailed("validation_failed") /\ UNCHANGED <<_stores, _docs, sv, up>>
          ELSE IF LawChunks[i] = <<>>
          THEN NextItem /\ UNCHANGED <<_stores, _docs, sv, up>>
          ELSE BeginUpsert(COLLECTION_LAWS, LawChunks[i]) /\ UNCHANGED call
    /\ UNCHANGED <<file, ioFailed, ops, failures, restarts>>

\* ingest_precedents(query) up to its loop
IngestPrecedents ==
    /\ CanStart
    /\ _stores' = StoresWith(COLLECTION_PRECEDENTS)
    /\ _docs' = DocsWith(COLLECTION_PRECEDENTS)
    /\ \/ \E precs \in PrecedentResults : call' = StartedCall("ingest_precedents", precs)
       \/ call' = [NoCall EXCEPT !.op = "ingest_precedents", !.status = "returned"]
    /\ ioFailed' = FALSE
    /\ ops' = ops + 1
    /\ UNCHANGED <<file, sv, up, failures, restarts>>

\* one turn of the loop of ingest_precedents, up to the _save inside upsert
IngestPrecedentItem ==
    /\ Running("ingest_precedents")
    /\ call.idx <= Len(call.items)
    /\ LET i == call.items[call.idx]
           prec == PrecedentCatalog[i]
       IN IF prec.prec_seq = <<>>
          THEN NextItem /\ UNCHANGED <<_stores, _docs, sv, up>>
          ELSE IF prec.content = <<>>
          THEN NextItemFailed("empty_or_noise") /\ UNCHANGED <<_stores, _docs, sv, up>>
          ELSE IF ~PrecedentAccepted[i]
          THEN NextItemFailed("validation_failed") /\ UNCHANGED <<_stores, _docs, sv, up>>
          ELSE IF PrecedentChunks[i] = <<>>
          THEN NextItem /\ UNCHANGED <<_stores, _docs, sv, up>>
          ELSE BeginUpsert(COLLECTION_PRECEDENTS, PrecedentChunks[i]) /\ UNCHANGED call
    /\ UNCHANGED <<file, ioFailed, ops, failures, restarts>>

\* ingest_store_policies(policies, force_refresh) up to its loop
IngestStorePolicies ==
    /\ CanStart
    /\ _stores' = StoresWith(COLLECTION_POLICIES)
    /\ \E force_refresh \in BOOLEAN :
          IF force_refresh
          THEN /\ _docs' = [DocsWith(COLLECTION_POLICIES) EXCEPT ![COLLECTION_POLICIES] = <<>>]
               /\ file' = [file EXCEPT ![COLLECTION_POLICIES] = FileAbsent]
               /\ up' = IF up.coll = COLLECTION_POLICIES THEN NoUpsert ELSE up
          ELSE /\ _docs' = DocsWith(COLLECTION_POLICIES)
               /\ UNCHANGED <<file, up>>
    /\ \E policies \in PolicyLists : call' = StartedCall("ingest_store_policies", policies)
    /\ ioFailed' = FALSE
    /\ ops' = ops + 1
    /\ UNCHANGED <<sv, failures, restarts>>

\* one turn of the loop of ingest_store_policies, up to the _save inside upsert
IngestPolicyItem ==
    /\ Running("ingest_store_policies")
    /\ call.idx <= Len(call.items)
    /\ LET i == call.items[call.idx]
           chunks == PolicyChunks[i][call.idx]
       IN IF PolicyCatalog[i].text = <<>> \/ chunks = <<>>
          THEN NextItem /\ UNCHANGED <<_stores, _docs, sv, up>>
          ELSE BeginUpsert(COLLECTION_POLICIES, chunks) /\ UNCHANGED call
    /\ UNCHANGED <<file, ioFailed, ops, failures, restarts>>

\* the loop of an ingestion operation is over: return total_chunks
IngestReturn ==
    /\ call.op \in IngestOps
    /\ call.status = "running"
    /\ sv.pc = "idle"
    /\ call.idx > Len(call.items)
    /\ call' = [call EXCEPT !.status = "returned", !.value = call.total_chunks]
    /\ UNCHANGED <<_stores, _docs, file, sv, up, ioFailed, ops, failures, restarts>>

(***************************************************************************)
(* Search                                                                  *)
(*                                                                         *)
(* Scores are integers in units of 0.0001, the precision round(x, 4)       *)
(* keeps.                                                                  *)
(***************************************************************************)
CACHE_TTL == 300

\* SOURCE_WEIGHTS in tenths, and the weight of a type it does not list
SOURCE_WEIGHTS == [law |-> 10, precedent |-> 9, store_policy |-> 8]
\* weights that rate a store policy above a statute
SourceWeightInverted(source_type) ==
    IF source_type = "law" THEN 8 ELSE IF source_type = "store_policy" THEN 10 ELSE 9

SourceWeight(source_type) ==
    IF source_type \in DOMAIN SOURCE_WEIGHTS THEN SOURCE_WEIGHTS[source_type] ELSE 5

\* A fusion score is the fraction f[1] / (10 * f[2]).
FracZero == <<0, 1>>
FracAdd(f, g) == <<f[1] * g[2] + g[1] * f[2], f[2] * g[2]>>
FracLess(f, g) == f[1] * g[2] < g[1] * f[2]

\* round(f, 4) of a fusion score (no fusion score of two ranks below
\* nine lies on a tie)
Round4(f) == (2000 * f[1] + f[2]) \div (2 * f[2])

\* the products (score, weight in tenths) that lie on a tie of the fourth
\* decimal and that round(score * weight, 4) rounds down, the product of
\* the doubles being below the tie; scores from 0.0045 to 0.0169, where the
\* fusion scores of ranks below nine lie
TiesRoundedDown ==
    { <<45, 9>>, <<45, 5>>, <<49, 5>>, <<55, 9>>, <<55, 5>>, <<59, 5>>,
      <<65, 5>>, <<69, 5>>, <<75, 9>>, <<75, 5>>, <<81, 5>>, <<87, 5>>,
      <<89, 5>>, <<93, 5>>, <<95, 5>>, <<101, 5>>, <<107, 5>>, <<109, 5>>,
      <<113, 5>>, <<115, 9>>, <<115, 5>>, <<121, 5>>, <<127, 5>>, <<133, 5>>,
      <<135, 9>>, <<135, 5>>, <<139, 5>>, <<141, 5>>, <<147, 5>>, <<153, 5>>,
      <<155, 5>>, <<157, 5>>, <<161, 5>>, <<163, 5>>, <<167, 5>>, <<169, 5>> }

\* round(base_score * weight, 4)
RoundWeighted(base_score, weight) ==
    IF <<base_score, weight>> \in TiesRoundedDown
    THEN (base_score * weight - 5) \div 10
    ELSE (2 * base_score * weight + 10) \div 20

\* sorted(items, key = the fraction item.key, reverse=True): stable, so
\* items of equal key stay in their order
InsertDesc(sorted, x) ==
    LET n == Cardinality({i \in DOMAIN sorted : ~FracLess(sorted[i].key, x.key)})
    IN SubSeq(sorted, 1, n) \o <<x>> \o SubSeq(sorted, n + 1, Len(sorted))

RECURSIVE SortedDesc(_)
SortedDesc(items) ==
    IF items = <<>> THEN <<>>
    ELSE InsertDesc(SortedDesc(SubSeq(items, 1, Len(items) - 1)), items[Len(items)])

Keyed(items, keys) == [i \in DOMAIN items |-> [key |-> keys[i], item |-> items[i]]]
Unkeyed(pairs) == [i \in DOMAIN pairs |-> pairs[i].item]
\* q[:n], which for a negative n leaves out the last -n elements
Take(q, n) ==
    SubSeq(q, 1, IF n < 0 THEN (IF Len(q) + n > 0 THEN Len(q) + n ELSE 0)
                 ELSE IF n < Len(q) THEN n ELSE Len(q))

\* results.sort(key=score, reverse=True)
SortByScore(results) ==
    Unkeyed(SortedDesc(Keyed(results, [i \in DOMAIN results |-> <<results[i].score, 1>>])))

\* a ranker that leaves the results in the order of the fusion
SortByWeightedUnsorted(results) == results

\* results.sort(key=weighted_score, reverse=True)
SortByWeighted(results) ==
    Unkeyed(SortedDesc(Keyed(results,
        [i \in DOMAIN results |-> <<results[i].weighted_score[1], 1>>])))

\* A text of the corpus is kept as its first 100 characters (head) and the
\* rest (tail), which is all the fusion reads of it.
First100(text) == text.head

\* s.lower() of a text
LowerText(text) == [i \in DOMAIN text |-> Lower(text[i])]

StoreApple == <<"A", "p", "p", "l", "e">>
StoreGoogle == <<"G", "o", "o", "g", "l", "e">>

\* the chunks of the corpus: one index per collection
SearchDocs ==
    << [id |-> "L1", text |-> [head |-> "L1", tail |-> ""],
        metadata |-> [source_type |-> "law", source_id |-> "L1"], coll |-> COLLECTION_LAWS],
       [id |-> "L2", text |-> [head |-> "L2", tail |-> ""],
        metadata |-> [source_type |-> "law", source_id |-> "L2"], coll |-> COLLECTION_LAWS],
       [id |-> "L3", text |-> [head |-> "L3", tail |-> ""],
        metadata |-> [source_type |-> "law", source_id |-> "L3"], coll |-> COLLECTION_LAWS],
       [id |-> "P1", text |-> [head |-> "P1", tail |-> "p"],
        metadata |-> [source_type |-> "precedent", source_id |-> "P1"], coll |-> COLLECTION_PRECEDENTS],
       [id |-> "S1", text |-> [head |-> "S1", tail |-> ""],
        metadata |-> [source_type |-> "store_policy", source_id |-> "S1",
                     store |-> StoreApple],
        coll |-> COLLECTION_POLICIES],
       [id |-> "S2", text |-> [head |-> "S2", tail |-> ""],
        metadata |-> [source_type |-> "store_policy", source_id |-> "S2",
                     store |-> StoreGoogle],
        coll |-> COLLECTION_POLICIES] >>

DocIds == {SearchDocs[i].id : i \in DOMAIN SearchDocs}

\* a result dict; hybrid_score and weighted_score are <<>> while absent
Hit(text, metadata, score, search_type) ==
    [text |-> text, metadata |-> metadata, score |-> score,
     search_type |-> search_type, hybrid_score |-> <<>>, weighted_score |-> <<>>]

\* what the index of a collection returns for the query: its chunks by
\* decreasing similarity, at most k of them
IndexHits(coll, k, search_type) ==
    LET mine == SelectSeq(SearchDocs,
                          LAMBDA d : d.coll = coll /\ d.id \in _vectorstores[d.coll])
        hits == [i \in DOMAIN mine |->
                    Hit(mine[i].text, mine[i].metadata, semScore[mine[i].id], search_type)]
    IN Take(SortByScore(hits), k)

\* collections=None stands for ALL_COLLECTIONS; an argument is <<>> for None
\* and <<list>> for a list
CollectionsArg(collections) ==
    IF collections = <<>> THEN ALL_COLLECTIONS ELSE collections[1]

\* a collection's index answers the query ("ok"), raises, or holds texts
\* from which no vocabulary can be built
ChannelStates == {"ok", "raises", "no_vocabulary"}
ChannelsUp == [c \in Collections |-> "ok"]
Raises(coll) == coll \in DOMAIN channel /\ channel[coll] = "raises"

RECURSIVE SemanticFrom(_, _, _)
\* a loop that the first raising collection ends
SemanticFromStopping(colls, i, k) ==
    IF i > Len(colls) \/ Raises(colls[i]) THEN <<>>
    ELSE IndexHits(colls[i], k, "semantic") \o SemanticFrom(colls, i + 1, k)

\* _semantic_search(query, top_k, collections): a collection whose query
\* raises is logged and skipped
SemanticFrom(colls, i, k) ==
    IF i > Len(colls) THEN <<>>
    ELSE (IF Raises(colls[i]) THEN <<>> ELSE IndexHits(colls[i], k, "semantic"))
            \o SemanticFrom(colls, i + 1, k)

_semantic_search(top_k, collections) == SemanticFrom(CollectionsArg(collections), 1, top_k)

\* _keyword_search(query, top_k): the first top_k rows, [] when the search raises
_keyword_search(top_k) ==
    IF kwRows.raises THEN <<>>
    ELSE [i \in DOMAIN Take(kwRows.rows, top_k) |->
            Hit(kwRows.rows[i].content, kwRows.rows[i].metadata, kwRows.rows[i].rank,
                "keyword")]

\* a loop that stores the score of the latest occurrence instead of adding it
RECURSIVE FuseFromOverwriting(_, _, _, _, _)
FuseFromOverwriting(acc, results, i, weight, keep_first) ==
    IF i > Len(results) THEN acc
    ELSE LET r == results[i]
             doc_key == Md5(First100(r.text))
             rrf_score == <<weight, 60 + (i - 1)>>
             at == {j \in DOMAIN acc : acc[j].doc_key = doc_key}
             next ==
                 IF at = {}
                 THEN Append(acc, [doc_key |-> doc_key, key |-> rrf_score, item |-> r])
                 ELSE [j \in DOMAIN acc |->
                         IF j \in at
                         THEN [acc[j] EXCEPT !.key = rrf_score,
                                             !.item = IF keep_first THEN @ ELSE r]
                         ELSE acc[j]]
         IN FuseFromOverwriting(next, results, i + 1, weight, keep_first)

\* one loop of the fusion over a result list, from element i: the entries
\* of combined_scores and result_data in insertion order
RECURSIVE FuseFrom(_, _, _, _, _)
FuseFrom(acc, results, i, weight, keep_first) ==
    IF i > Len(results) THEN acc
    ELSE LET r == results[i]
             doc_key == Md5(First100(r.text))
             rrf_score == <<weight, 60 + (i - 1)>>
             at == {j \in DOMAIN acc : acc[j].doc_key = doc_key}
             next ==
                 IF at = {}
                 THEN Append(acc, [doc_key |-> doc_key, key |-> rrf_score, item |-> r])
                 ELSE [j \in DOMAIN acc |->
                         IF j \in at
                         THEN [acc[j] EXCEPT !.key = FracAdd(@, rrf_score),
                                             !.item = IF keep_first THEN @ ELSE r]
                         ELSE acc[j]]
         IN FuseFrom(next, results, i + 1, weight, keep_first)

\* the two loops: combined_scores and result_data of every fingerprint
Fuse(semantic_results, keyword_results) ==
    FuseFrom(FuseFrom(<<>>, semantic_results, 1, 7, FALSE), keyword_results, 1, 3, TRUE)

\* the hybrid branch: fusion, order by combined score, hybrid_score
HybridResults(top_k, collections) ==
    LET semantic_results == _semantic_search(top_k * 2, collections)
        keyword_results == _keyword_search(top_k)
        fused == Fuse(semantic_results, keyword_results)
        first == Take(SortedDesc(fused), top_k * 2)
    IN [i \in DOMAIN first |->
          [first[i].item EXCEPT !.hybrid_score = <<Round4(first[i].key)>>]]

\* the loop that sets weighted_score
Weighted(results) ==
    [i \in DOMAIN results |->
        LET r == results[i]
            weight == SourceWeight(MetaGet(r.metadata, "source_type", "unknown"))
            base_score == IF r.hybrid_score # <<>> THEN r.hybrid_score[1] ELSE r.score
        IN [r EXCEPT !.weighted_score = <<RoundWeighted(base_score, weight)>>]]

\* search_legal_context of langchain_rag past the cache lookup
RankedResults(top_k, score_threshold, collections, use_hybrid) ==
    LET results == IF use_hybrid THEN HybridResults(top_k, collections)
                   ELSE _semantic_search(top_k * 2, collections)
        sorted == SortByWeighted(Weighted(results))
    IN Take(SelectSeq(sorted, LAMBDA r : r.score >= score_threshold), top_k)

\* The similarity that VectorStore.query computes for a stored chunk and the
\* query: that of the corpus chunk it is, or else a level that its text fixes.
TextSimilarity(text) ==
    IF text = <<>> THEN 0
    ELSE IF text[1] = "a" THEN 8000 ELSE IF text[1] = "b" THEN 5000 ELSE 0

Similarity(entry) ==
    LET source_id == MetaGet(entry.metadata, "source_id", "unknown")
    IN IF source_id \in DocIds THEN semScore[source_id] ELSE TextSimilarity(entry.text)

Reversed(q) == [i \in DOMAIN q |-> q[Len(q) + 1 - i]]

\* VectorStore.query(query_text, n_results) on the dict d: [] for an empty
\* dict; else argsort(similarities)[::-1][:n_results], which among equal
\* similarities takes the later chunk first, those of similarity 0 or less
\* left out.  Without a vocabulary both vectorisers raise ValueError and the
\* similarities are zeros.
StoreQuery(d, n_results, vocabulary) ==
    IF d = <<>> THEN <<>>
    ELSE LET hits == [i \in DOMAIN d |->
                        Hit(d[i].text, d[i].metadata,
                            IF vocabulary THEN Similarity(d[i]) ELSE 0, "none")]
         IN SelectSeq(Take(SortByScore(Reversed(hits)), n_results),
                      LAMBDA r : r.score > 0)

\* instances that start empty whatever their file holds
OpenDocsUnloaded == [c \in Collections |-> IF c \in _stores THEN _docs[c] ELSE <<>>]

\* the dicts of the instances once get_or_create_collection has been called
\* for every collection
OpenDocs == [c \in Collections |-> DocsWith(c)[c]]

\* search_legal_context of legal_rag: the loop over ALL_COLLECTIONS from i;
\* a collection whose query raises is logged and skipped
RECURSIVE PlainFrom(_, _, _)
PlainFrom(i, top_k, score_threshold) ==
    IF i > Len(ALL_COLLECTIONS) THEN <<>>
    ELSE LET col_name == ALL_COLLECTIONS[i]
             store == OpenDocs[col_name]
             hits == IF Raises(col_name) \/ count(store) = 0 THEN <<>>
                     ELSE StoreQuery(store, top_k, channel[col_name] # "no_vocabulary")
         IN SelectSeq(hits, LAMBDA hit : hit.score >= score_threshold)
                \o PlainFrom(i + 1, top_k, score_threshold)

PlainResults(top_k, score_threshold) ==
    Take(SortByScore(PlainFrom(1, top_k, score_threshold)), top_k)

\* AdvancedLegalRAG.search: the hits of every store, best first
RECURSIVE AdvancedFrom(_, _)
AdvancedFrom(i, top_k) ==
    IF i > Len(ALL_COLLECTIONS) THEN <<>>
    ELSE IndexHits(ALL_COLLECTIONS[i], top_k, "none") \o AdvancedFrom(i + 1, top_k)

\* search_legal_context of legal_rag_advanced, with its fallback threshold
FallbackThreshold == 1000
AdvancedResults(top_k, score_threshold) ==
    LET results == Take(SortByScore(AdvancedFrom(1, top_k)), top_k)
        filtered == SelectSeq(results, LAMBDA r : r.score >= score_threshold)
    IN IF filtered = <<>> /\ results # <<>>
       THEN SelectSeq(results, LAMBDA r : r.score >= FallbackThreshold)
       ELSE filtered

\* the entry of _search_cache under cache_key set to (time.time(), results)
CacheSet(cache, cache_key, entry) ==
    [k \in DOMAIN cache \cup {cache_key} |-> IF k = cache_key THEN entry ELSE cache[k]]

(***************************************************************************)
(* Query expansion                                                         *)
(***************************************************************************)
\* LEGAL_SYNONYMS as the module defines it, in the order of the literal
SynonymEntry(term, synonyms) == [term |-> term, synonyms |-> synonyms]
LegalSynonymsLiteral ==
    << SynonymEntry(<<"K_in", "K_aep", "K_gyeol", "K_je">>,
           << <<"K_aep", " ", "K_nae", " ", "K_gu", "K_mae">>,
              <<"K_in", "K_aep", " ", "K_gu", "K_mae">>, <<"I", "A", "P">> >>),
       SynonymEntry(<<"K_in", "K_aep", " ", "K_gyeol", "K_je">>,
           << <<"K_aep", " ", "K_nae", " ", "K_gu", "K_mae">>,
              <<"K_in", "K_aep", " ", "K_gu", "K_mae">>, <<"I", "A", "P">> >>),
       SynonymEntry(<<"K_gae", "K_in", "K_jeong", "K_bo">>,
           << <<"K_gae", "K_in", " ", "K_jeong", "K_bo">>,
              <<"K_sa", "K_yong", "K_ja", " ", "K_de", "K_i", "K_teo">>,
              <<"K_peu", "K_ra", "K_i", "K_beo", "K_si">> >>),
       SynonymEntry(<<"K_jeo", "K_jak", "K_gwon">>,
           << <<"K_jeo", "K_jak", "K_mul">>,
              <<"K_ji", "K_jeok", "K_jae", "K_san", "K_gwon">>, <<"I", "P">>,
              <<"c", "o", "p", "y", "r", "i", "g", "h", "t">> >>),
       SynonymEntry(<<"K_eo", "K_rin", "K_i">>,
           << <<"K_a", "K_dong">>, <<"K_mi", "K_seong", "K_nyeon", "K_ja">>,
              <<"K_ki", "K_jeu">>, <<"k", "i", "d", "s">> >>),
       SynonymEntry(<<"K_a", "K_dong">>,
           << <<"K_eo", "K_rin", "K_i">>, <<"K_mi", "K_seong", "K_nyeon", "K_ja">>,
              <<"K_ki", "K_jeu">> >>),
       SynonymEntry(<<"K_gu", "K_dok">>,
           << <<"K_ja", "K_dong", " ", "K_gaeng", "K_sin">>,
              <<"K_jeong", "K_gi", " ", "K_gyeol", "K_je">>,
              <<"s", "u", "b", "s", "c", "r", "i", "p", "t", "i", "o", "n">> >>),
       SynonymEntry(<<"K_hwan", "K_bul">>,
           << <<"K_chwi", "K_so">>, <<"K_ban", "K_pum">>,
              <<"r", "e", "f", "u", "n", "d">> >>),
       SynonymEntry(<<"K_gwang", "K_go">>,
           << <<"K_ae", "K_deu">>, <<"a", "d">>,
              <<"a", "d", "v", "e", "r", "t", "i", "s", "e", "m", "e", "n", "t">> >>),
       SynonymEntry(<<"K_gyeol", "K_je">>,
           << <<"K_gu", "K_mae">>, <<"p", "u", "r", "c", "h", "a", "s", "e">>,
              <<"p", "a", "y", "m", "e", "n", "t">> >>) >>

\* " ".join(terms)
RECURSIVE JoinSpace(_)
JoinSpace(terms) ==
    IF terms = <<>> THEN <<>>
    ELSE IF Len(terms) = 1 THEN terms[1]
    ELSE terms[1] \o <<" ">> \o JoinSpace(Tail(terms))

\* every synonym of a term
TopSynonymsAll(synonyms) == synonyms

\* synonyms[:2]
TopSynonyms(synonyms) == Take(synonyms, 2)

\* the loop of expand_query over LEGAL_SYNONYMS.items(), from entry i
RECURSIVE ExpandFrom(_, _, _)
ExpandFrom(expanded_terms, query, i) ==
    IF i > Len(LEGAL_SYNONYMS) THEN expanded_terms
    ELSE ExpandFrom(IF Contains(query, LEGAL_SYNONYMS[i].term)
                    THEN expanded_terms \o TopSynonyms(LEGAL_SYNONYMS[i].synonyms)
                    ELSE expanded_terms,
                    query, i + 1)

expand_query(query) == JoinSpace(ExpandFrom(<<query>>, query, 1))

\* queries: up to two pieces, each a term of the table or other text
QueryPieces ==
    {LegalSynonymsLiteral[i].term : i \in DOMAIN LegalSynonymsLiteral}
        \cup {<<"x">>, <<" ">>, <<"K_gyeol">>, <<"K_in", "K_aep">>}
ExpandQueries ==
    {<<>>} \cup QueryPieces \cup {p \o q : p \in QueryPieces, q \in QueryPieces}

ExpandIdle ==
    /\ LEGAL_SYNONYMS = LegalSynonymsLiteral
    /\ xQuery = <<>>
    /\ xOut = <<>>

\* one call of expand_query
ExpandQuery ==
    /\ \E query \in ExpandQueries :
          /\ xQuery' = query
          /\ xOut' = <<expand_query(query)>>
    /\ UNCHANGED LEGAL_SYNONYMS

\* the inputs of the searches
MaxSearches == 2
Queries == {"q"}
TopKs == {1, 2}
Thresholds == {3000, 7000}
NoCollections == <<>>
SomeCollections == <<(<<COLLECTION_PRECEDENTS, COLLECTION_LAWS>>)>>
HybridCall(top_k, score_threshold, collections, use_hybrid, use_cache) ==
    [top_k |-> top_k, score_threshold |-> score_threshold, collections |-> collections,
     use_hybrid |-> use_hybrid, use_cache |-> use_cache]
PoliciesFirst == <<(<<COLLECTION_POLICIES, COLLECTION_LAWS>>)>>
HybridCalls ==
    { HybridCall(2, 3000, NoCollections, TRUE, TRUE),
      HybridCall(1, 3000, PoliciesFirst, TRUE, FALSE),
      HybridCall(2, 7000, NoCollections, TRUE, TRUE),
      HybridCall(2, 3000, NoCollections, FALSE, TRUE),
      HybridCall(2, 7000, NoCollections, TRUE, FALSE),
      HybridCall(1, 3000, SomeCollections, TRUE, TRUE),
      HybridCall(1, 7000, SomeCollections, FALSE, FALSE) }
SemLevels == {2000, 5000, 8000}
SemScores ==
    {f \in [DocIds -> SemLevels] :
        /\ f["L2"] = 5000 /\ f["L3"] = 2000
        /\ f["S1"] = f["L1"] /\ f["S2"] = 5000 /\ f["P1"] # 2000}
\* what db.search_fts answers: DatabaseManager defines no search_fts, so the
\* call raises AttributeError every time
KeywordAnswers == { [raises |-> TRUE, rows |-> <<>>] }
\* calls over no collection, over a collection that has no index, and over
\* one that has
EmptyCollections == <<(<<>>)>>
QueryCalls ==
    { HybridCall(2, 3000, EmptyCollections, TRUE, TRUE),
      HybridCall(1, 3000, <<(<<"drafts">>)>>, FALSE, FALSE),
      HybridCall(1, 3000, <<(<<COLLECTION_PRECEDENTS>>)>>, TRUE, FALSE) }
\* calls made while some indexes fail
ChannelCalls ==
    { HybridCall(2, 3000, NoCollections, TRUE, FALSE),
      HybridCall(2, 3000, NoCollections, TRUE, TRUE),
      HybridCall(1, 3000, PoliciesFirst, FALSE, FALSE) }
QueryTopKs == {2}
QueryThresholds == {3000, 7000}
ClockValues == {0, 150, 300}
PlainTopKs == TopKs \cup {-1, 0}
PolicyTopKs == {1}
StoreFilters == {<<>>, <<"a", "p", "p", "l", "e">>}

NoSearch ==
    [fn |-> "none", query |-> "", top_k |-> 0, score_threshold |-> 0,
     collections |-> <<>>, use_hybrid |-> FALSE, use_cache |-> FALSE,
     cached |-> FALSE, result |-> <<>>]
Returned(fn, query, c, cached, result) ==
    [fn |-> fn, query |-> query, top_k |-> c.top_k, score_threshold |-> c.score_threshold,
     collections |-> c.collections, use_hybrid |-> c.use_hybrid,
     use_cache |-> c.use_cache, cached |-> cached, result |-> result]

SearchIdle ==
    /\ semScore = [d \in DocIds |-> 8000]
    /\ kwRows = [raises |-> TRUE, rows |-> <<>>]
    /\ channel = ChannelsUp
    /\ _search_cache = <<>>
    /\ now = 0
    /\ sOut = NoSearch
    /\ searches = 0
    /\ ExpandIdle

\* the collections once the corpus is ingested
CorpusDocs ==
    [c \in Collections |->
        LET mine == SelectSeq(SearchDocs, LAMBDA d : d.coll = c)
        IN [i \in DOMAIN mine |-> DictEntry(mine[i].id, mine[i].text, mine[i].metadata)]]

\* a process that starts on the files of the ingested corpus
CorpusInit ==
    /\ _stores = {}
    /\ _docs = [c \in Collections |-> <<>>]
    /\ file = [c \in Collections |-> FileOf(CorpusDocs[c])]
    /\ sv = SaveIdle
    /\ call = NoCall
    /\ up = NoUpsert
    /\ ioFailed = FALSE
    /\ ops = 0
    /\ failures = 0
    /\ restarts = 0

\* a corpus some of whose indexes fail
ChannelInit ==
    /\ semScore \in SemScores
    /\ kwRows \in KeywordAnswers
    /\ channel \in [Collections -> ChannelStates]
    /\ _search_cache = <<>>
    /\ now = 0
    /\ sOut = NoSearch
    /\ searches = 0
    /\ ExpandIdle

SearchInit ==
    /\ semScore \in SemScores
    /\ kwRows \in KeywordAnswers
    /\ channel = ChannelsUp
    /\ _search_cache = <<>>
    /\ now = 0
    /\ sOut = NoSearch
    /\ searches = 0
    /\ ExpandIdle

\* a lookup that serves an entry whatever its age
SearchNoExpiry(query, c) ==
    LET cache_key == Md5(<<query, c.top_k, c.collections>>)
        results == RankedResults(c.top_k, c.score_threshold, c.collections, c.use_hybrid)
    IN IF c.use_cache /\ cache_key \in DOMAIN _search_cache
       THEN [result |-> _search_cache[cache_key][2], cached |-> TRUE,
             cache |-> _search_cache]
       ELSE [result |-> results, cached |-> FALSE,
             cache |-> IF c.use_cache
                       THEN CacheSet(_search_cache, cache_key, <<now, results>>)
                       ELSE _search_cache]

\* search_legal_context of langchain_rag on the call c: what it returns,
\* whether the cache served it, and the cache it leaves
Search(query, c) ==
    LET cache_key == Md5(<<query, c.top_k, c.collections>>)
        hit == /\ c.use_cache
               /\ cache_key \in DOMAIN _search_cache
               /\ now - _search_cache[cache_key][1] < CACHE_TTL
        results == RankedResults(c.top_k, c.score_threshold, c.collections, c.use_hybrid)
    IN IF hit
       THEN [result |-> _search_cache[cache_key][2], cached |-> TRUE,
             cache |-> _search_cache]
       ELSE [result |-> results, cached |-> FALSE,
             cache |-> IF c.use_cache
                       THEN CacheSet(_search_cache, cache_key, <<now, results>>)
                       ELSE _search_cache]

SearchLegalContextOn(calls) ==
    /\ searches < MaxSearches
    /\ \E query \in Queries, c \in calls :
          LET r == Search(query, c)
          IN /\ sOut' = Returned("langchain", query, c, r.cached, r.result)
             /\ _search_cache' = r.cache
    /\ searches' = searches + 1
    /\ UNCHANGED <<semScore, kwRows, channel, now, expandVars>>

SearchLegalContext == SearchLegalContextOn(HybridCalls)

\* search_store_policies, through search_by_collection
PolicyThreshold == 2000
SearchStorePolicies ==
    /\ searches < MaxSearches
    /\ \E query \in Queries, top_k \in PolicyTopKs, store_filter \in StoreFilters :
          LET c == HybridCall(IF store_filter # <<>> THEN top_k * 2 ELSE top_k,
                              PolicyThreshold, <<(<<COLLECTION_POLICIES>>)>>, TRUE, TRUE)
              r == Search(query, c)
              results ==
                  IF store_filter # <<>>
                  THEN SelectSeq(r.result,
                           LAMBDA x : LowerText(MetaGet(x.metadata, "store", <<>>))
                                          = LowerText(store_filter))
                  ELSE r.result
          IN /\ sOut' = Returned("store_policies", query, [c EXCEPT !.top_k = top_k],
                                 r.cached, Take(results, top_k))
             /\ _search_cache' = r.cache
    /\ searches' = searches + 1
    /\ UNCHANGED <<semScore, kwRows, channel, now, expandVars>>

PlainCall(top_k, score_threshold) ==
    HybridCall(top_k, score_threshold, NoCollections, FALSE, FALSE)

\* search_legal_context of legal_rag
SearchLegalContextPlainOn(top_ks, thresholds) ==
    /\ searches < MaxSearches
    /\ call.status # "running" /\ sv.pc = "idle"
    /\ \E query \in Queries, top_k \in top_ks, score_threshold \in thresholds :
          sOut' = Returned("plain", query, PlainCall(top_k, score_threshold), FALSE,
                           PlainResults(top_k, score_threshold))
    /\ _stores' = Collections
    /\ _docs' = OpenDocs
    /\ call' = [NoCall EXCEPT !.op = "search", !.status = "returned"]
    /\ searches' = searches + 1
    /\ UNCHANGED <<semScore, kwRows, channel, _search_cache, now, expandVars>>
    /\ UNCHANGED <<file, sv, up, ioFailed, ops, failures, restarts>>

SearchLegalContextPlain == SearchLegalContextPlainOn(PlainTopKs, Thresholds)

\* search_legal_context of legal_rag_advanced
SearchLegalContextAdvanced ==
    /\ searches < MaxSearches
    /\ \E query \in Queries, top_k \in TopKs, score_threshold \in Thresholds :
          sOut' = Returned("advanced", query, PlainCall(top_k, score_threshold), FALSE,
                           AdvancedResults(top_k, score_threshold))
    /\ searches' = searches + 1
    /\ UNCHANGED <<semScore, kwRows, channel, _search_cache, now, expandVars>>

\* time.time() moves on between two calls
Tick ==
    /\ searches < MaxSearches
    /\ \E t \in ClockValues : t > now /\ now' = t
    /\ UNCHANGED <<semScore, kwRows, channel, _search_cache, sOut, searches, expandVars>>

(***************************************************************************)
(* Claims about the filter (SpecFilter)                                    *)
(***************************************************************************)
\* the type minimum and the keyword set the claim names for a source type
C5_TypeMinimum == [law |-> 100, precedent |-> 80, store_policy |-> 50]
C5_TypeKeywords ==
    [law |-> LEGAL_KEYWORDS_LAW, precedent |-> LEGAL_KEYWORDS_PRECEDENT,
     store_policy |-> LEGAL_KEYWORDS_POLICY]

C5_DistinctKeywords(type) ==
    {C5_TypeKeywords[type][k] : k \in DOMAIN C5_TypeKeywords[type]}

C5_Accepts(text, type) ==
    /\ Len(Strip(text)) >= 10
    /\ NoiseFindall(text) < 3
    /\ CountChar(text, "/") * 100 <= 5 * Len(text)
    /\ Len(Strip(text)) >= C5_TypeMinimum[type]
    /\ Cardinality({kw \in C5_DistinctKeywords(type) : Contains(text, kw)}) >= 2

\* C5: for the source types law, precedent and store_policy,
\* validate_legal_document returns True exactly when the trimmed text has at
\* least 10 characters, the text has fewer than 3 noise-pattern matches, its
\* '/' count is at most 0.05 of its length, its trimmed length is at least the
\* type minimum and at least 2 distinct keywords of the type occur in it; so
\* a text with 3 or more noise matches is rejected for every type.  The call
\* changes nothing but its result.
C5_ValidateExact ==
    (fResult # <<>> /\ fType \in DOMAIN C5_TypeMinimum) =>
        /\ fResult[1] = C5_Accepts(fText, fType)
        /\ NoiseFindall(fText) >= 3 => fResult[1] = FALSE

\* a text that only its 3 noise matches make the filter reject
C5_Witness ==
    /\ fResult = <<FALSE>>
    /\ fType \in DOMAIN C5_TypeMinimum
    /\ NoiseFindall(fText) = 3
    /\ CountChar(fText, "/") = 0
    /\ Len(Strip(fText)) >= C5_TypeMinimum[fType]
    /\ Cardinality({kw \in C5_DistinctKeywords(fType) : Contains(fText, kw)}) >= 2

(***************************************************************************)
(* Claims about the chunkers (SpecChunk)                                   *)
(***************************************************************************)
ChunkerRan == cOut.fn \in {"chunk_law_text", "chunk_precedent_text"}

\* chunk number i of a list carries chunk_index i - 1
IndexContiguous(chunks) ==
    \A i \in 1..Len(chunks) :
        /\ "chunk_index" \in DOMAIN chunks[i].metadata
        /\ chunks[i].metadata["chunk_index"] = i - 1

\* every field of the parent other than those in `except` is inherited
InheritsExcept(chunks, parent, except) ==
    \A i \in 1..Len(chunks) :
        \A k \in DOMAIN parent \ except :
            /\ k \in DOMAIN chunks[i].metadata
            /\ chunks[i].metadata[k] = parent[k]

\* a chunk that has an id has the id derived from source_id and its index
IdDerived(chunks, parent) ==
    \A i \in 1..Len(chunks) :
        "id" \in DOMAIN chunks[i] =>
            chunks[i].id = <<"md5", <<MetaGet(parent, "source_id", "unknown"),
                                       "_chunk_", chunks[i].metadata["chunk_index"]>> >>

\* C6 as stated: for every chunker (chunk_law_text, chunk_precedent_text,
\* chunk_law_text_advanced) the returned chunks carry chunk_index 0..n-1 in
\* list order, each id is the one derived from (source_id, chunk_index), and
\* every metadata field other than chunk_index equals the parent's value.
C6_AsStated ==
    cOut.fn # "none" =>
        /\ IndexContiguous(cOut.chunks)
        /\ IdDerived(cOut.chunks, cMeta)
        /\ InheritsExcept(cOut.chunks, cMeta, {"chunk_index"})

\* C6 amended: chunk_law_text and chunk_precedent_text return chunks with
\* chunk_index 0..n-1 in list order, the id derived from (source_id,
\* chunk_index) and every other parent field unchanged; the Documents of
\* chunk_law_text_advanced carry chunk_index 0..n-1 in list order, no id,
\* source_type "law" whatever the parent says, and every parent field other
\* than chunk_index and source_type unchanged.
C6_ChunkIndexAndMetadata ==
    /\ ChunkerRan =>
          /\ IndexContiguous(cOut.chunks)
          /\ \A i \in 1..Len(cOut.chunks) : "id" \in DOMAIN cOut.chunks[i]
          /\ IdDerived(cOut.chunks, cMeta)
          /\ InheritsExcept(cOut.chunks, cMeta, {"chunk_index"})
    /\ cOut.fn = "chunk_law_text_advanced" =>
          /\ IndexContiguous(cOut.chunks)
          /\ \A i \in 1..Len(cOut.chunks) :
                /\ "id" \notin DOMAIN cOut.chunks[i]
                /\ cOut.chunks[i].metadata["source_type"] = "law"
          /\ InheritsExcept(cOut.chunks, cMeta, {"chunk_index", "source_type"})

\* chunk_law_text returned three chunks for a parent that already carried a
\* chunk_index
C6_Witness ==
    /\ cOut.fn = "chunk_law_text"
    /\ Len(cOut.chunks) >= 3
    /\ "chunk_index" \in DOMAIN cMeta

\* the characters of s that are not whitespace, in order
NonSpace(s) == SelectSeq(s, LAMBDA c : ~IsSpace(c))

\* chunks i.. lie in ns at non-decreasing starts, each beginning no later
\* than the first character not yet covered, and together reach the end
RECURSIVE CoversFrom(_, _, _, _, _)
CoversFrom(ns, chunks, i, prevStart, done) ==
    IF i > Len(chunks) THEN done = Len(ns)
    ELSE LET c == NonSpace(chunks[i].text)
         IN \E p \in prevStart..(done + 1) :
               /\ OccursAt(ns, c, p)
               /\ CoversFrom(ns, chunks, i + 1, p,
                             IF p + Len(c) - 1 > done THEN p + Len(c) - 1 ELSE done)

C8_ChunkWithinSize ==
    ChunkerRan => \A i \in 1..Len(cOut.chunks) : Len(cOut.chunks[i].text) <= cSize

\* a chunk merged from two segments fills chunk_size exactly
C8_Witness ==
    /\ cOut.fn = "chunk_law_text"
    /\ \E i \in 1..Len(cOut.chunks) :
          /\ Len(cOut.chunks[i].text) = cSize
          /\ \E j \in 2..(cSize - 1) :
                cOut.chunks[i].text[j] = " " /\ cOut.chunks[i].text[j + 1] = "K_je"

RECURSIVE Flatten(_)
Flatten(segments) ==
    IF segments = <<>> THEN <<>> ELSE Head(segments) \o Flatten(Tail(segments))
HeaderTag(h) == <<"[">> \o h \o <<"]">>

\* C26: chunk_precedent_text puts each section header back in front of the
\* text that follows it: a segment formed at a header boundary begins with
\* that header once, and the segments in order are the cleaned text, no
\* character added, duplicated or dropped, whitespace aside.
C26_AsStated ==
    cOut.fn = "chunk_precedent_text" =>
        LET cleaned == _clean_html(cText)
            segments == PrecedentSegments(cleaned)
        IN /\ NonSpace(Flatten(segments)) = NonSpace(cleaned)
           /\ \A i \in DOMAIN segments, h \in HeaderNames :
                 OccursAt(segments[i], HeaderTag(h), 1)
                     => ~OccursAt(Strip(SubSeq(segments[i], Len(HeaderTag(h)) + 1,
                                               Len(segments[i]))),
                                  HeaderTag(h), 1)

\* the segments the chunker that ran cut the cleaned text into
SegmentsOfCall ==
    IF cOut.fn = "chunk_law_text" THEN LawSegments(_clean_html(cText))
    ELSE PrecedentSegments(_clean_html(cText))
\* the call had one segment, longer than chunk_size
OneOversizedSegment ==
    /\ ChunkerRan
    /\ _clean_html(cText) # <<>>
    /\ Len(SegmentsOfCall) = 1
    /\ Len(SegmentsOfCall[1]) > cSize
\* segment[i : i + chunk_size].strip()
WindowAt(segment, i, chunk_size) ==
    Strip(SubSeq(segment, i + 1,
                 IF i + chunk_size <= Len(segment) THEN i + chunk_size ELSE Len(segment)))

\* C27: a segment longer than max_size is cut into windows of at most
\* max_size characters at the offsets 0, s, 2s, ... with s = max_size -
\* overlap; the windows cover the segment, and the cutting ends without an
\* error and loses no text for every positive max_size and every overlap
\* of 0 or more.
C27_AsStated ==
    (OneOversizedSegment /\ cSize > 0 /\ cOverlap >= 0) =>
        LET segment == SegmentsOfCall[1]
            s == cSize - cOverlap
        IN /\ ~cOut.raised
           /\ \A n \in DOMAIN cOut.chunks : Len(cOut.chunks[n].text) <= cSize
           /\ s > 0 => \A n \in DOMAIN cOut.chunks :
                          \E k \in 0..Len(segment) :
                              /\ k * s < Len(segment)
                              /\ cOut.chunks[n].text = WindowAt(segment, k * s, cSize)
           /\ CoversFrom(NonSpace(segment), cOut.chunks, 1, 1, 0)

\* C27 for an overlap below max_size
C27_OverlapBelowSize ==
    (OneOversizedSegment /\ cSize > 0 /\ cOverlap >= 0 /\ cOverlap < cSize) =>
        LET segment == SegmentsOfCall[1]
            s == cSize - cOverlap
        IN /\ ~cOut.raised
           /\ \A n \in DOMAIN cOut.chunks : Len(cOut.chunks[n].text) <= cSize
           /\ \A n \in DOMAIN cOut.chunks :
                 \E k \in 0..Len(segment) :
                     /\ k * s < Len(segment)
                     /\ cOut.chunks[n].text = WindowAt(segment, k * s, cSize)
           /\ CoversFrom(NonSpace(segment), cOut.chunks, 1, 1, 0)

\* the loop state of chunk_law_text after its first k segments
LoopStateAfter(k) ==
    ChunkLoop([chunks |-> <<>>, current |-> <<>>, raised |-> FALSE],
              SubSeq(LawSegments(_clean_html(cText)), 1, k),
              cSize, cOverlap, cMeta, MetaGet(cMeta, "source_id", "unknown"))
\* the segments of at most chunk_size characters lie whole in chunks whose
\* numbers do not decrease along the document
SegmentsWholeInOrder(segments, chunks) ==
    LET small == {i \in DOMAIN segments : Len(segments[i]) <= cSize}
    IN \E f \in [small -> DOMAIN chunks] :
          /\ \A i \in small : Contains(chunks[f[i]].text, segments[i])
          /\ \A i, j \in small : i < j => f[i] <= f[j]
\* the step on segment k + 1 writes the running buffer out as the next chunk
Flushes(k) ==
    /\ Len(LoopStateAfter(k + 1).chunks) > Len(LoopStateAfter(k).chunks)
    /\ LoopStateAfter(k + 1).chunks[Len(LoopStateAfter(k).chunks) + 1].text
           = LoopStateAfter(k).current

\* C28: in chunk_law_text a segment of at most max_size characters is never
\* divided between two chunks: it lies whole in one chunk, the segments keep
\* their order, and the running buffer is written out as a chunk exactly when
\* the buffer, a space and the next segment together exceed max_size;
\* otherwise the segment joins the buffer after a space.
C28_SegmentsWhole ==
    (cOut.fn = "chunk_law_text" /\ ~cOut.raised /\ _clean_html(cText) # <<>>) =>
        LET segments == LawSegments(_clean_html(cText))
        IN /\ SegmentsWholeInOrder(segments, cOut.chunks)
           /\ \A k \in 0..(Len(segments) - 1) :
                 LET st == LoopStateAfter(k)
                     exceeds == Len(st.current) + 1 + Len(segments[k + 1]) > cSize
                 IN st.current # <<>> =>
                       /\ Flushes(k) <=> exceeds
                       /\ ~exceeds =>
                             /\ LoopStateAfter(k + 1).current
                                    = st.current \o <<" ">> \o segments[k + 1]
                             /\ LoopStateAfter(k + 1).chunks = st.chunks
\* two articles, each within chunk_size, that do not fit one chunk together:
\* the first is written out when the second arrives
C28_Witness ==
    /\ cOut.fn = "chunk_law_text"
    /\ ~cOut.raised
    /\ Len(LawSegments(_clean_html(cText))) = 2
    /\ \A i \in 1..2 : Len(LawSegments(_clean_html(cText))[i]) <= cSize
    /\ LoopStateAfter(1).current # <<>>
    /\ Flushes(1)
    /\ Len(cOut.chunks) = 2



(***************************************************************************)
(* Claims about the VectorStore (SpecStore)                                *)
(***************************************************************************)
\* the text the batch gives last for an id
LatestText(batch, id) ==
    LET last == CHOOSE k \in DOMAIN batch :
                    /\ batch[k].id = id
                    /\ \A m \in DOMAIN batch : batch[m].id = id => m <= k
    IN batch[last].text

\* C1: once upsert has applied a batch, the collection holds exactly one
\* entry under each id of the batch, with the latest text given for that id;
\* when every id of the batch was already stored, count() is what it was
\* before; every entry stored under another id is unchanged and in its
\* place.
C1_IdempotentUpsert ==
    up.coll # "none" =>
        LET d == _docs[up.coll]
            ids == DictIds(up.batch)
        IN /\ \A id \in ids :
                 /\ Cardinality({i \in DOMAIN d : d[i].id = id}) = 1
                 /\ \A i \in DOMAIN d :
                       d[i].id = id => d[i].text = LatestText(up.batch, id)
           /\ ids \subseteq DictIds(up.pre) => count(d) = count(up.pre)
           /\ \A j \in DOMAIN up.pre :
                 up.pre[j].id \notin ids => j \in DOMAIN d /\ d[j] = up.pre[j]

\* a second upsert under a stored chunk id brought a different text, beside
\* an entry under another id
C1_Witness ==
    /\ up.coll # "none"
    /\ Len(up.batch) = 1
    /\ Len(up.pre) = 2
    /\ up.batch[1].id = _generate_chunk_id("s1", 0)
    /\ \E j \in DOMAIN up.pre :
          up.pre[j].id = up.batch[1].id /\ up.pre[j].text # up.batch[1].text
    /\ count(_docs[up.coll]) = 2

\* C2 as stated: during and after an upsert a reader that loads the
\* collection file gets the complete pre-batch or the complete post-batch
\* collection, and once upsert has returned or raised the in-memory
\* collection is what the file holds.
C2_AsStated ==
    up.coll # "none" =>
        /\ _load(file[up.coll]) \in {up.pre, UpsertDocs(up.pre, up.batch)}
        /\ sv.pc = "idle" => _docs[up.coll] = _load(file[up.coll])

\* C20: as long as no write of a collection file has failed, whenever no
\* save is under way a new VectorStore opened on the name of an instance
\* loads from the file exactly the id -> {text, metadata} mapping that the
\* instance holds; after clear() the instance holds nothing and the file of
\* the collection does not exist.
C20_ReopenedStoreAgrees ==
    /\ (failures = 0 /\ sv.pc = "idle") =>
          \A c \in _stores : _load(file[c]) = _docs[c]
    /\ (call.op = "clear" /\ call.status = "returned") =>
          /\ _docs[call.coll] = <<>>
          /\ ~file[call.coll].exists
          /\ _load(file[call.coll]) = <<>>

\* an upsert of two chunks into laws and its save, then a clear of
\* precedents, while no write failed
C20_Witness ==
    /\ failures = 0
    /\ restarts = 0
    /\ call.op = "clear"
    /\ call.coll = COLLECTION_PRECEDENTS
    /\ ~file[COLLECTION_PRECEDENTS].exists
    /\ count(_docs[COLLECTION_LAWS]) = 2
    /\ file[COLLECTION_LAWS].exists
    /\ _load(file[COLLECTION_LAWS]) = _docs[COLLECTION_LAWS]

(***************************************************************************)
(* Claims about ingestion (SpecIngest)                                     *)
(***************************************************************************)
\* C3 as stated: when a write of the collection file has failed inside an
\* ingestion operation, that operation has ended by raising: it is neither
\* still going through its documents nor returned with a count.
C3_AsStated ==
    (call.op \in IngestOps /\ ioFailed) => call.status = "raised"

\* the filter's verdict on the policies, which ingest_store_policies never asks for
C4_PolicyAccepted ==
    [i \in DOMAIN PolicyCatalog |->
        validate_legal_document(PolicyCatalog[i].text, "store_policy")]

SeqRange(q) == {q[k] : k \in DOMAIN q}

\* the chunks of the documents the filter accepts for the collection's type
C4_AcceptedChunks ==
    [name \in Collections |->
        IF name = COLLECTION_LAWS
        THEN UNION {SeqRange(LawChunks[i]) : i \in {j \in DOMAIN LawCatalog : LawAccepted[j]}}
        ELSE IF name = COLLECTION_PRECEDENTS
        THEN UNION {SeqRange(PrecedentChunks[i]) :
                       i \in {j \in DOMAIN PrecedentCatalog : PrecedentAccepted[j]}}
        ELSE UNION {SeqRange(PolicyChunks[i][pos]) :
                       i \in {j \in DOMAIN PolicyCatalog : C4_PolicyAccepted[j]},
                       pos \in PolicyPositions}]

\* C4 as stated: every chunk held in a collection is a chunk of a document
\* that validate_legal_document accepts for the collection's source type.
C4_AsStated ==
    \A name \in Collections :
        SeqRange(_docs[name]) \subseteq C4_AcceptedChunks[name]

\* the ingestion operations that ask the filter
FilteredOps == {"ingest_laws", "ingest_precedents"}
IngestCollection(op) ==
    IF op = "ingest_laws" THEN COLLECTION_LAWS ELSE COLLECTION_PRECEDENTS

\* the document at position i of the catalog of op reached the filter and
\* passed it
PassedFilter(op, i) ==
    IF op = "ingest_laws"
    THEN LawCatalog[i].law_id # <<>> /\ LawCatalog[i].content # <<>> /\ LawAccepted[i]
    ELSE /\ PrecedentCatalog[i].prec_seq # <<>>
         /\ PrecedentCatalog[i].content # <<>>
         /\ PrecedentAccepted[i]

ChunksOf(op, i) == IF op = "ingest_laws" THEN LawChunks[i] ELSE PrecedentChunks[i]

\* the chunk counts of the documents of the batch that passed the filter
RECURSIVE SumPassed(_, _, _)
SumPassed(op, items, k) ==
    IF k > Len(items) THEN 0
    ELSE (IF PassedFilter(op, items[k]) THEN Len(ChunksOf(op, items[k])) ELSE 0)
            + SumPassed(op, items, k + 1)

\* no chunk of a document the filter rejects is in the collection
RejectedAbsent ==
    /\ \A i \in DOMAIN LawCatalog :
           ~LawAccepted[i] => SeqRange(LawChunks[i]) \cap SeqRange(_docs[COLLECTION_LAWS]) = {}
    /\ \A i \in DOMAIN PrecedentCatalog :
           ~PrecedentAccepted[i] =>
               SeqRange(PrecedentChunks[i]) \cap SeqRange(_docs[COLLECTION_PRECEDENTS]) = {}

\* the ids of the chunks of every document of the batch that passed the
\* filter are in the collection
PassedStored ==
    \A k \in DOMAIN call.items :
        PassedFilter(call.op, call.items[k]) =>
            \A j \in DOMAIN ChunksOf(call.op, call.items[k]) :
                ChunksOf(call.op, call.items[k])[j].id
                    \in DictIds(_docs[IngestCollection(call.op)])

OpCollection(op) ==
    IF op = "ingest_laws" THEN COLLECTION_LAWS
    ELSE IF op = "ingest_precedents" THEN COLLECTION_PRECEDENTS
    ELSE COLLECTION_POLICIES

\* the source_id the operation gives the document at position k of its batch
ItemSourceId(op, items, k) ==
    IF op = "ingest_laws" THEN LawMetadata(LawCatalog[items[k]]).source_id
    ELSE IF op = "ingest_precedents"
    THEN PrecedentMetadata(PrecedentCatalog[items[k]]).source_id
    ELSE PolicyMetadata(PolicyCatalog[items[k]], k - 1).source_id

\* an ingestion operation, the first operation on the stores, has returned
ReturnedOnEmpty ==
    /\ call.op \in IngestOps
    /\ call.status = "returned"
    /\ ops = 1

\* C30 as stated: when an ingestion operation has run on an empty
\* collection, count() of the collection equals the number the operation
\* returned: no chunk counted as written was overwritten by the chunk of
\* another document of the batch.
C30_AsStated ==
    ReturnedOnEmpty => count(_docs[OpCollection(call.op)]) = call.value

\* What does hold: the two agree when no write of the collection file failed
\* and the documents of the batch were given pairwise different source ids.
C30_DistinctSourceIds ==
    (/\ ReturnedOnEmpty
     /\ ~ioFailed
     /\ \A k1, k2 \in DOMAIN call.items :
            k1 < k2 => ItemSourceId(call.op, call.items, k1)
                          # ItemSourceId(call.op, call.items, k2))
        => count(_docs[OpCollection(call.op)]) = call.value

\* ingest_store_policies returned 2 for two policies at positions 0 and 1 with
\* the same store and section and no subsection, and the collection holds 2
C30_TwoWritten ==
    /\ ReturnedOnEmpty
    /\ call.items = <<1, 1>>
    /\ call.value = 2
    /\ count(_docs[COLLECTION_POLICIES]) = 2

\* the batch of a policy without subsection at position 0 and another with
\* the subsection "0": 2 returned, 1 chunk held
C30_Collision ==
    /\ ReturnedOnEmpty
    /\ ~ioFailed
    /\ call.items = <<1, 4>>
    /\ call.value = 2
    /\ count(_docs[COLLECTION_POLICIES]) = 1

(***************************************************************************)
(* Claims about the searches (SpecSearch)                                  *)
(***************************************************************************)
Scores(result) == [i \in DOMAIN result |-> result[i].score]
WeightedScores(result) == [i \in DOMAIN result |-> result[i].weighted_score[1]]
NonIncreasing(q) == \A i \in DOMAIN q : i + 1 \in DOMAIN q => q[i] >= q[i + 1]

\* C9: no item returned by a search_legal_context call, computed or served
\* from the result cache, has a score below the score_threshold of that call.
C9_AsStated ==
    \A i \in DOMAIN sOut.result : sOut.result[i].score >= sOut.score_threshold

\* C10 as stated: the score field of a returned list is non-increasing.
C10_AsStated == NonIncreasing(Scores(sOut.result))

\* C10: a returned list is non-increasing in the key its ranker sorts by,
\* weighted_score in langchain_rag and score in legal_rag.
C10_OrderedByRankingKey ==
    /\ sOut.fn = "langchain" => NonIncreasing(WeightedScores(sOut.result))
    /\ sOut.fn = "plain" => NonIncreasing(Scores(sOut.result))

\* a langchain_rag result of two items in weighted order whose scores increase
C10_Witness ==
    /\ sOut.fn = "langchain"
    /\ Len(sOut.result) = 2
    /\ sOut.result[1].weighted_score[1] > sOut.result[2].weighted_score[1]
    /\ sOut.result[1].score < sOut.result[2].score

\* C11 as stated: whatever top_k a search is called with, it returns at most
\* top_k items.
C11_AsStated == Len(sOut.result) <= sOut.top_k

\* the statute chunks of the requested collections whose raw similarity is
\* that of the returned item j
LawsOfEqualScore(j) ==
    {i \in DOMAIN SearchDocs :
        /\ SearchDocs[i].metadata.source_type = "law"
        /\ \E k \in DOMAIN CollectionsArg(sOut.collections) :
               CollectionsArg(sOut.collections)[k] = SearchDocs[i].coll
        /\ semScore[SearchDocs[i].id] = sOut.result[j].score}

\* every statute chunk whose raw similarity equals that of a returned
\* store-policy chunk is returned before it
LawBeforePolicy ==
    \A j \in DOMAIN sOut.result :
        MetaGet(sOut.result[j].metadata, "source_type", "unknown") = "store_policy" =>
            \A d \in LawsOfEqualScore(j) :
                \E i \in 1..(j - 1) : sOut.result[i].text = SearchDocs[d].text

\* C12 as stated: search_legal_context, in every mode, places a statute chunk
\* before a store-policy chunk of identical raw similarity.
C12_AsStated == sOut.fn \in {"langchain", "plain"} => LawBeforePolicy

\* C12: a list computed by legal_rag, or by langchain_rag without the hybrid
\* fusion, places a statute chunk before a store-policy chunk of identical raw
\* similarity.
C12_LawBeforePolicyUnfused ==
    (/\ sOut.fn \in {"langchain", "plain"}
     /\ ~sOut.use_hybrid
     /\ ~sOut.cached) => LawBeforePolicy

\* a weighted, unfused list that holds a store-policy chunk after a statute
\* chunk of the same raw similarity
C12_Witness ==
    /\ sOut.fn = "langchain"
    /\ ~sOut.use_hybrid
    /\ ~sOut.cached
    /\ \E j \in DOMAIN sOut.result :
           /\ MetaGet(sOut.result[j].metadata, "source_type", "unknown") = "store_policy"
           /\ LawsOfEqualScore(j) # {}

(***************************************************************************)
(* Claims about the query expansion (SpecExpand)                           *)
(***************************************************************************)
\* the text that the entries from i on add to the query: for each entry
\* whose term occurs in the query, a space and its first synonym, a space
\* and its second
RECURSIVE C17_Suffix(_)
C17_Suffix(i) ==
    IF i > Len(LegalSynonymsLiteral) THEN <<>>
    ELSE (IF Contains(xQuery, LegalSynonymsLiteral[i].term)
          THEN <<" ">> \o LegalSynonymsLiteral[i].synonyms[1]
                   \o <<" ">> \o LegalSynonymsLiteral[i].synonyms[2]
          ELSE <<>>) \o C17_Suffix(i + 1)

\* C17: expand_query(query) is the query followed, space-joined, by the
\* first 2 synonyms of each table key that occurs in the query, in table
\* order and without de-duplication; it is the query itself when no key
\* occurs in it, and the table stays as the module defines it.
C17_ExpandQuery ==
    /\ LEGAL_SYNONYMS = LegalSynonymsLiteral
    /\ xOut # <<>> =>
          /\ xOut[1] = xQuery \o C17_Suffix(1)
          /\ (\A i \in DOMAIN LegalSynonymsLiteral :
                  ~Contains(xQuery, LegalSynonymsLiteral[i].term)) => xOut[1] = xQuery

\* the expansion of a query made of two terms that share synonyms and
\* contain a third: three entries match, and two synonyms are added twice
C17_Witness ==
    /\ xOut # <<>>
    /\ xQuery = <<"K_in", "K_aep", "K_gyeol", "K_je", "K_in", "K_aep", " ", "K_gyeol", "K_je">>
    /\ Len(xOut[1]) > Len(xQuery)

(***************************************************************************)
(* Claims about the result cache (SpecSearch)                              *)
(***************************************************************************)
\* the step is a call of search_legal_context of langchain_rag with caching
CachingCall ==
    /\ searches' = searches + 1
    /\ sOut'.fn = "langchain"
    /\ sOut'.use_cache

\* the cache key of the call that the step makes
CalledKey == Md5(<<sOut'.query, sOut'.top_k, sOut'.collections>>)

\* before the step the cache holds an entry for the key, younger than 300 s
FreshEntry ==
    /\ CalledKey \in DOMAIN _search_cache
    /\ now - _search_cache[CalledKey][1] < 300

\* C15: a caching call whose key has an entry younger than 300 s returns the
\* cached list and runs no channel (the cache stays as it is); when the
\* entry is absent or 300 s old or older, the list is computed by the
\* channels and the entry becomes (time of the call, that list), the other
\* entries staying as they are.
C15_CacheTtl ==
    [][CachingCall =>
          /\ FreshEntry =>
                /\ sOut'.cached
                /\ sOut'.result = _search_cache[CalledKey][2]
                /\ _search_cache' = _search_cache
          /\ ~FreshEntry =>
                /\ ~sOut'.cached
                /\ sOut'.result = RankedResults(sOut'.top_k, sOut'.score_threshold,
                                                sOut'.collections, sOut'.use_hybrid)
                /\ DOMAIN _search_cache' = DOMAIN _search_cache \cup {CalledKey}
                /\ _search_cache'[CalledKey] = <<now, sOut'.result>>
                /\ \A k \in DOMAIN _search_cache \ {CalledKey} :
                       _search_cache'[k] = _search_cache[k]]_vars

\* a call served, 150 s later, the list cached at time 0
C15_Witness ==
    /\ sOut.fn = "langchain"
    /\ sOut.cached
    /\ now = 150
    /\ LET cache_key == Md5(<<sOut.query, sOut.top_k, sOut.collections>>)
       IN /\ cache_key \in DOMAIN _search_cache
          /\ _search_cache[cache_key] = <<0, sOut.result>>

\* C16 as stated: a list served from the cache is the list the same call
\* computes with the cache disabled, whatever calls came before.
C16_AsStated ==
    (sOut.fn = "langchain" /\ sOut.cached) =>
        sOut.result = RankedResults(sOut.top_k, sOut.score_threshold,
                                    sOut.collections, sOut.use_hybrid)

\* every merged candidate of a hybrid call, by decreasing fusion score, with
\* its hybrid_score
MergedCandidates(top_k, collections) ==
    LET all == SortedDesc(Fuse(_semantic_search(top_k * 2, collections),
                               _keyword_search(top_k)))
    IN [i \in DOMAIN all |-> [all[i].item EXCEPT !.hybrid_score = <<Round4(all[i].key)>>]]
\* those that reach the threshold, by decreasing source-weighted score
PassingCandidates(top_k, score_threshold, collections) ==
    SelectSeq(SortByWeighted(Weighted(MergedCandidates(top_k, collections))),
              LAMBDA r : r.score >= score_threshold)

\* C25: a hybrid search returns exactly the first top_k, by decreasing
\* source-weighted score, of all merged candidates whose similarity reaches
\* score_threshold; when at least top_k of them reach it, top_k are returned.
C25_AsStated ==
    (sOut.fn = "langchain" /\ sOut.use_hybrid /\ ~sOut.cached) =>
        LET passing == PassingCandidates(sOut.top_k, sOut.score_threshold, sOut.collections)
        IN /\ sOut.result = Take(passing, sOut.top_k)
           /\ Len(passing) >= sOut.top_k => Len(sOut.result) = sOut.top_k

(***************************************************************************)
(* Claims about the store and the searches together (SpecQuery)            *)
(***************************************************************************)
\* the last operation of the process was a search of legal_rag
PlainSearched == call.op = "search" /\ sOut.fn = "plain"

\* the requested collections that have an index
IndexedRequested ==
    {k \in DOMAIN CollectionsArg(sOut.collections) :
        \E i \in DOMAIN SearchDocs :
            SearchDocs[i].coll = CollectionsArg(sOut.collections)[k]}

\* C13: search_legal_context over an empty collection set, or over
\* collections that are empty or were just cleared, returns the empty list
\* (every item it returns is a chunk some collection holds at the time of
\* the call); after clear() the count() of the collection is 0 and its query
\* returns [] for every n_results.
C13_EmptyGivesEmpty ==
    /\ PlainSearched =>
          /\ (\A c \in Collections : count(_docs[c]) = 0) => sOut.result = <<>>
          /\ \A i \in DOMAIN sOut.result :
                 \E c \in Collections : \E k \in DOMAIN _docs[c] :
                     /\ _docs[c][k].text = sOut.result[i].text
                     /\ _docs[c][k].metadata = sOut.result[i].metadata
    /\ call.op = "clear" =>
          /\ count(_docs[call.coll]) = 0
          /\ \A n \in PlainTopKs, vocabulary \in BOOLEAN :
                 StoreQuery(_docs[call.coll], n, vocabulary) = <<>>
    /\ (sOut.fn = "langchain" /\ IndexedRequested = {}) => sOut.result = <<>>

\* a search of legal_rag that returned [] after two store operations left
\* every collection empty, the last of them a clear
C13_Witness ==
    /\ PlainSearched
    /\ sOut.top_k = 2
    /\ sOut.score_threshold = 3000
    /\ sOut.result = <<>>
    /\ ops = 2
    /\ \A c \in Collections : count(_docs[c]) = 0
    /\ \E c \in Collections : ~file[c].exists

(***************************************************************************)
(* Claims about what a search leaves behind (SpecSearch)                   *)
(***************************************************************************)
\* the chunks a collection holds: those of its instance, or those its file
\* gives to the instance that the next get_or_create_collection creates
Stored(c) == IF c \in _stores THEN _docs[c] ELSE _load(file[c])
StoredAfter(c) == IF c \in _stores' THEN _docs'[c] ELSE _load(file'[c])

\* C18: a search (search_legal_context of either module, search_store_policies,
\* and the VectorStore.query calls they make) leaves the chunks of every
\* collection, ids, texts and metadata, and every collection file as they
\* were; no save is started.
C18_SearchLeavesStore ==
    [][(searches' = searches + 1) =>
          /\ file' = file
          /\ \A c \in Collections : StoredAfter(c) = Stored(c)
          /\ sv' = sv]_vars

\* a search of legal_rag that opened the three collections, returned two
\* chunks, and left the chunks and the files of the corpus in place
C18_Witness ==
    /\ PlainSearched
    /\ Len(sOut.result) = 2
    /\ _stores = Collections
    /\ \A c \in Collections : _docs[c] = CorpusDocs[c] /\ file[c] = FileOf(CorpusDocs[c])

(***************************************************************************)
(* Claims about failing channels (SpecChannel)                             *)
(***************************************************************************)
\* the requested collections whose query does not raise, in the order asked
Succeeded(collections) ==
    SelectSeq(CollectionsArg(collections), LAMBDA c : ~Raises(c))

\* the collection that holds the corpus chunk of this text
CollOf(text) ==
    CHOOSE c \in Collections :
        \E i \in DOMAIN SearchDocs : SearchDocs[i].coll = c /\ SearchDocs[i].text = text

\* the hits of collection c that pass the threshold of the call
PassingHits(c) ==
    SelectSeq(StoreQuery(_docs[c], sOut.top_k, TRUE),
              LAMBDA h : h.score >= sOut.score_threshold)

\* C14: when the index query of a collection fails, or the keyword search
\* does, search_legal_context skips that channel only.  A list computed by
\* langchain_rag is the one the same call computes over the collections that
\* did not raise; a list of legal_rag holds no chunk of a failed collection,
\* and each passing hit of a working collection is in it unless top_k items
\* of no lower score are; the list is empty when every channel fails.
C14_FailedChannelSkipped ==
    /\ (sOut.fn = "langchain" /\ ~sOut.cached) =>
          /\ sOut.result = RankedResults(sOut.top_k, sOut.score_threshold,
                                         <<Succeeded(sOut.collections)>>, sOut.use_hybrid)
          /\ Succeeded(sOut.collections) = <<>> => sOut.result = <<>>
    /\ PlainSearched =>
          /\ \A i \in DOMAIN sOut.result : channel[CollOf(sOut.result[i].text)] = "ok"
          /\ (\A c \in Collections : channel[c] # "ok") => sOut.result = <<>>
          /\ \A c \in Collections :
                 channel[c] = "ok" =>
                     \A k \in DOMAIN PassingHits(c) :
                         \/ \E i \in DOMAIN sOut.result :
                                sOut.result[i].text = PassingHits(c)[k].text
                         \/ /\ Len(sOut.result) = sOut.top_k
                            /\ \A i \in DOMAIN sOut.result :
                                   sOut.result[i].score >= PassingHits(c)[k].score

\* a hybrid search over all collections while the index of laws raises and
\* the keyword search fails, which returns the two best of the others
C14_Witness ==
    /\ sOut.fn = "langchain"
    /\ ~sOut.cached
    /\ sOut.use_hybrid
    /\ sOut.collections = NoCollections
    /\ kwRows.raises
    /\ channel[COLLECTION_LAWS] = "raises"
    /\ channel[COLLECTION_PRECEDENTS] = "ok"
    /\ channel[COLLECTION_POLICIES] = "ok"
    /\ Len(sOut.result) = 2

(***************************************************************************)
(* Concurrent searches                                                     *)
(*                                                                         *)
(* Two threads of one process each make one search.  A thread runs its     *)
(* call in the steps at which another thread can see or change what is     *)
(* shared: _search_cache and the registry of VectorStore instances.        *)
(***************************************************************************)
Threads == {1, 2}
ThreadCalls ==
    { [fn |-> "langchain", c |-> HybridCall(2, 3000, NoCollections, TRUE, TRUE)],
      [fn |-> "langchain", c |-> HybridCall(2, 7000, NoCollections, TRUE, TRUE)],
      [fn |-> "langchain", c |-> HybridCall(1, 3000, PoliciesFirst, TRUE, FALSE)],
      [fn |-> "plain", c |-> PlainCall(2, 3000)],
      [fn |-> "plain", c |-> PlainCall(2, 7000)] }

NoThread ==
    [pc |-> "idle", fn |-> "none", query |-> "", c |-> PlainCall(0, 0),
     overlapped |-> FALSE, raised |-> FALSE, result |-> <<>>]
ThreadsIdle == th = [t \in Threads |-> NoThread]

ThreadRunning(t) == th[t].pc \notin {"idle", "done"}
ThreadKey(t) == Md5(<<th[t].query, th[t].c.top_k, th[t].c.collections>>)

\* thread t enters search_legal_context; a call that finds another one
\* running has overlapped with it, and so has the one it found
ThreadCall(t) ==
    /\ th[t].pc = "idle"
    /\ \E query \in Queries, k \in ThreadCalls :
          th' = [u \in Threads |->
                    IF u = t
                    THEN [NoThread EXCEPT
                            !.pc = IF k.fn = "plain" THEN "open"
                                   ELSE IF k.c.use_cache THEN "test" ELSE "compute",
                            !.fn = k.fn, !.query = query, !.c = k.c,
                            !.overlapped = \E v \in Threads \ {t} : ThreadRunning(v)]
                    ELSE IF ThreadRunning(u) THEN [th[u] EXCEPT !.overlapped = TRUE]
                    ELSE th[u]]
    /\ UNCHANGED <<storeVars, searchVars>>

\* `if use_cache and cache_key in _search_cache`
CacheTest(t) ==
    /\ th[t].pc = "test"
    /\ th' = [th EXCEPT ![t].pc = IF ThreadKey(t) \in DOMAIN _search_cache
                                  THEN "read" ELSE "compute"]
    /\ UNCHANGED <<storeVars, searchVars>>

\* `cached_time, cached_result = _search_cache[cache_key]` and the age test:
\* the subscript raises KeyError when the entry is gone
CacheRead(t) ==
    /\ th[t].pc = "read"
    /\ th' = [th EXCEPT ![t] =
                 IF ThreadKey(t) \notin DOMAIN _search_cache
                 THEN [@ EXCEPT !.pc = "done", !.raised = TRUE]
                 ELSE IF now - _search_cache[ThreadKey(t)][1] < CACHE_TTL
                 THEN [@ EXCEPT !.pc = "done", !.result = _search_cache[ThreadKey(t)][2]]
                 ELSE [@ EXCEPT !.pc = "compute"]]
    /\ UNCHANGED <<storeVars, searchVars>>

\* the searches, the weighting, the sort and the cut
ThreadCompute(t) ==
    /\ th[t].pc = "compute"
    /\ th' = [th EXCEPT ![t].result =
                            RankedResults(th[t].c.top_k, th[t].c.score_threshold,
                                          th[t].c.collections, th[t].c.use_hybrid),
                        ![t].pc = IF th[t].c.use_cache THEN "store" ELSE "done"]
    /\ UNCHANGED <<storeVars, searchVars>>

\* `_search_cache[cache_key] = (time.time(), results)` and the return
CacheStore(t) ==
    /\ th[t].pc = "store"
    /\ _search_cache' = CacheSet(_search_cache, ThreadKey(t), <<now, th[t].result>>)
    /\ th' = [th EXCEPT ![t].pc = "done"]
    /\ UNCHANGED <<storeVars, semScore, kwRows, channel, now, sOut, searches, expandVars>>

\* get_or_create_collection for the collections of legal_rag's search: two
\* threads that both miss the registry both load the same file
ThreadOpen(t) ==
    /\ th[t].pc = "open"
    /\ _stores' = Collections
    /\ _docs' = OpenDocs
    /\ th' = [th EXCEPT ![t].pc = "query"]
    /\ UNCHANGED <<file, sv, call, up, ioFailed, ops, failures, restarts, searchVars>>

\* VectorStore.query on every collection, the sort and the cut
ThreadQuery(t) ==
    /\ th[t].pc = "query"
    /\ th' = [th EXCEPT ![t].result = PlainResults(th[t].c.top_k, th[t].c.score_threshold),
                        ![t].pc = "done"]
    /\ UNCHANGED <<storeVars, searchVars>>

\* what the call of thread t returns when no other call runs
AloneResult(t) ==
    IF th[t].fn = "plain"
    THEN PlainResults(th[t].c.top_k, th[t].c.score_threshold)
    ELSE RankedResults(th[t].c.top_k, th[t].c.score_threshold,
                       th[t].c.collections, th[t].c.use_hybrid)

(***************************************************************************)
(* Claims about concurrent searches (SpecThreads)                          *)
(***************************************************************************)
\* C21: under every interleaving of two concurrent searches on collections
\* that nothing writes, each call returns what it returns when run alone and
\* none raises.
C21_AsStated ==
    \A t \in Threads :
        th[t].pc = "done" /\ th[t].overlapped
            => ~th[t].raised /\ th[t].result = AloneResult(t)

\* C21, the part that holds: no interleaving makes a call raise, and a call
\* that shares its cache key with no other call of different arguments
\* returns what it returns alone
C21_SameArguments ==
    \A t \in Threads :
        th[t].pc = "done"
            => /\ ~th[t].raised
               /\ (\A u \in Threads :
                      th[u].fn = th[t].fn /\ ThreadKey(u) = ThreadKey(t)
                          => th[u].c = th[t].c \/ th[u].pc = "idle")
                      => th[t].result = AloneResult(t)
C21_Witness ==
    /\ \A t \in Threads : th[t].pc = "done" /\ th[t].overlapped /\ th[t].fn = "langchain"
    /\ th[1].c = th[2].c
    /\ th[1].c.use_cache
    /\ th[1].result # <<>>

(***************************************************************************)
(* DatabaseManager: document chunks and analyses                           *)
(*                                                                         *)
(* A table is the sequence of its rows in insertion order.  A column that  *)
(* may hold NULL holds <<>> for NULL and <<v>> for the value v.  Every     *)
(* method runs in one connection that commits on return and rolls back on  *)
(* an exception.                                                           *)
(***************************************************************************)
MaxDbOps == 4
ChunkHashes == {"hash1", "hash2"}
ChunkContents == {"a", "b"}
Projects == {"p1", "p2"}
Severities == {"critical", "high", "medium", "low"}
RiskLevels == {"high", "low"}
\* schema.sql declares the count columns of compliance_analyses either
\* nullable or NOT NULL
CountColumns == {"nullable", "not_null"}

NoDbCall == [op |-> "none", arg |-> 0, level |-> "", value |-> 0, raised |-> FALSE]
DbInit ==
    /\ document_chunks = <<>>
    /\ compliance_analyses = <<>>
    /\ analysis_findings = <<>>
    /\ projects = [p \in Projects |-> "created"]
    /\ count_columns \in CountColumns
    /\ dbOut = NoDbCall
    /\ dbOps = 0
DbIdle ==
    /\ document_chunks = <<>>
    /\ compliance_analyses = <<>>
    /\ analysis_findings = <<>>
    /\ projects = [p \in Projects |-> "created"]
    /\ count_columns = "nullable"
    /\ dbOut = NoDbCall
    /\ dbOps = 0

\* _new_id(): a uuid4 no earlier call has returned
_new_id == dbOps + 1

\* SELECT ... WHERE <column> = value: the matching rows in table order
RowsWhere(table, Match(_)) == SelectSeq(table, Match)

\* an upsert that inserts without looking for the hash
upsert_chunkAlwaysInsert(table, chunk_hash, content, chunk_id) ==
    [table |-> Append(table, [id |-> chunk_id, chunk_hash |-> chunk_hash,
                              content |-> content, content_length |-> 1]),
     value |-> chunk_id]

\* upsert_chunk: the table it leaves and the id it returns
upsert_chunk(table, chunk_hash, content, chunk_id) ==
    LET existing == RowsWhere(table, LAMBDA r : r.chunk_hash = chunk_hash)
    IN IF existing # <<>>
       THEN [table |-> table, value |-> existing[1].id]
       ELSE [table |-> Append(table, [id |-> chunk_id, chunk_hash |-> chunk_hash,
                                      content |-> content, content_length |-> 1]),
             value |-> chunk_id]

UpsertChunk ==
    /\ dbOps < MaxDbOps
    /\ \E chunk_hash \in ChunkHashes, content \in ChunkContents :
          LET r == upsert_chunk(document_chunks, chunk_hash, content, _new_id)
          IN /\ document_chunks' = r.table
             /\ dbOut' = [NoDbCall EXCEPT !.op = "upsert_chunk", !.value = r.value]
    /\ dbOps' = dbOps + 1
    /\ UNCHANGED <<compliance_analyses, analysis_findings, projects, count_columns>>

CreateAnalysis ==
    /\ dbOps < MaxDbOps
    /\ \E project_id \in Projects :
          /\ compliance_analyses' =
                 Append(compliance_analyses,
                        [id |-> _new_id, project_id |-> project_id,
                         status |-> "in_progress", overall_risk_level |-> <<>>,
                         total_findings |-> <<>>, critical_count |-> <<>>,
                         high_count |-> <<>>, medium_count |-> <<>>, low_count |-> <<>>])
          /\ projects' = [projects EXCEPT ![project_id] = "analyzing"]
          /\ dbOut' = [NoDbCall EXCEPT !.op = "create_analysis", !.value = _new_id]
    /\ dbOps' = dbOps + 1
    /\ UNCHANGED <<document_chunks, analysis_findings, count_columns>>

AnalysisIds == {compliance_analyses[i].id : i \in DOMAIN compliance_analyses}

AddFinding ==
    /\ dbOps < MaxDbOps
    /\ \E analysis_id \in AnalysisIds, severity \in Severities :
          /\ analysis_findings' =
                 Append(analysis_findings,
                        [id |-> _new_id, analysis_id |-> analysis_id, severity |-> severity])
          /\ dbOut' = [NoDbCall EXCEPT !.op = "add_finding", !.arg = analysis_id,
                                       !.value = _new_id]
    /\ dbOps' = dbOps + 1
    /\ UNCHANGED <<document_chunks, compliance_analyses, projects, count_columns>>

FindingsOf(analysis_id) ==
    RowsWhere(analysis_findings, LAMBDA f : f.analysis_id = analysis_id)

\* count(*): 0 over no rows
SqlCount(rows) == <<Len(rows)>>
\* sum(CASE WHEN severity = s THEN 1 ELSE 0 END): NULL over no rows
SqlSumCase(rows, s) ==
    IF rows = <<>> THEN <<>>
    ELSE <<Len(SelectSeq(rows, LAMBDA f : f.severity = s))>>

\* the counts complete_analysis selects
SelectCounts(analysis_id) ==
    LET rows == FindingsOf(analysis_id)
    IN [total |-> SqlCount(rows),
        critical_count |-> SqlSumCase(rows, "critical"),
        high_count |-> SqlSumCase(rows, "high"),
        medium_count |-> SqlSumCase(rows, "medium"),
        low_count |-> SqlSumCase(rows, "low")]

\* the UPDATE of complete_analysis writes NULL into a NOT NULL column
IntegrityError(analysis_id) ==
    /\ count_columns = "not_null"
    /\ analysis_id \in AnalysisIds
    /\ SelectCounts(analysis_id).critical_count = <<>>

\* the id 0 is the id of no row
CompleteAnalysis ==
    /\ dbOps < MaxDbOps
    /\ \E analysis_id \in AnalysisIds \cup {0}, overall_risk_level \in RiskLevels :
          LET counts == SelectCounts(analysis_id)
              project == RowsWhere(compliance_analyses, LAMBDA a : a.id = analysis_id)
              call_ == [NoDbCall EXCEPT !.op = "complete_analysis", !.arg = analysis_id,
                                        !.level = overall_risk_level]
          IN IF IntegrityError(analysis_id)
             THEN /\ dbOut' = [call_ EXCEPT !.raised = TRUE]
                  /\ UNCHANGED <<compliance_analyses, projects>>
             ELSE /\ compliance_analyses' =
                         [i \in DOMAIN compliance_analyses |->
                             IF compliance_analyses[i].id = analysis_id
                             THEN [compliance_analyses[i] EXCEPT
                                      !.status = "completed",
                                      !.overall_risk_level = <<overall_risk_level>>,
                                      !.total_findings = counts.total,
                                      !.critical_count = counts.critical_count,
                                      !.high_count = counts.high_count,
                                      !.medium_count = counts.medium_count,
                                      !.low_count = counts.low_count]
                             ELSE compliance_analyses[i]]
                  /\ projects' = IF project # <<>>
                                 THEN [projects EXCEPT ![project[1].project_id] = "completed"]
                                 ELSE projects
                  /\ dbOut' = call_
    /\ dbOps' = dbOps + 1
    /\ UNCHANGED <<document_chunks, analysis_findings, count_columns>>

\* get_analysis: <<>> for None, else <<the row with its findings>>
get_analysis(analyses, findings, analysis_id) ==
    LET analysis == RowsWhere(analyses, LAMBDA a : a.id = analysis_id)
    IN IF analysis = <<>> THEN <<>>
       ELSE <<[row |-> analysis[1],
               findings |-> RowsWhere(findings, LAMBDA f : f.analysis_id = analysis_id)]>>

(***************************************************************************)
(* Claims about DatabaseManager (SpecDb)                                   *)
(***************************************************************************)
UpsertChunkStep == dbOps' = dbOps + 1 /\ dbOut'.op = "upsert_chunk"
HashStored(h) == \E i \in DOMAIN document_chunks : document_chunks[i].chunk_hash = h
OneRowPerHash ==
    \A i, j \in DOMAIN document_chunks :
        document_chunks[i].chunk_hash = document_chunks[j].chunk_hash => i = j

\* C22: upsert_chunk with a chunk_hash that is already stored returns the id
\* of the stored row and inserts nothing, so document_chunks never holds two
\* rows of one chunk_hash.
C22_UpsertChunkDedup ==
    /\ []OneRowPerHash
    /\ [][UpsertChunkStep =>
            \/ /\ document_chunks' = document_chunks
               /\ \E i \in DOMAIN document_chunks : document_chunks[i].id = dbOut'.value
            \/ /\ Len(document_chunks') = Len(document_chunks) + 1
               /\ ~HashStored(document_chunks'[Len(document_chunks')].chunk_hash)]_vars
C22_Witness ==
    /\ dbOut.op = "upsert_chunk"
    /\ Len(document_chunks) = 2
    /\ dbOps = 4
    /\ dbOut.value = document_chunks[1].id

CompleteStep ==
    /\ dbOps' = dbOps + 1
    /\ dbOut'.op = "complete_analysis"
    /\ dbOut'.arg \in AnalysisIds
ProjectOf(analysis_id) ==
    RowsWhere(compliance_analyses, LAMBDA a : a.id = analysis_id)[1].project_id
CountOf(findings, s) == <<Len(SelectSeq(findings, LAMBDA f : f.severity = s))>>

\* a new analysis is in progress and its project analyzing
CreatedInProgress ==
    \A i \in DOMAIN compliance_analyses' :
        i > Len(compliance_analyses)
            => /\ compliance_analyses'[i].status = "in_progress"
               /\ projects'[compliance_analyses'[i].project_id] = "analyzing"
\* it stays so through every step that is not complete_analysis on it or,
\* for the project, on an analysis of the same project
StaysInProgress ==
    \A i \in DOMAIN compliance_analyses :
        LET a == compliance_analyses[i]
        IN a.status = "in_progress"
              => /\ ~(CompleteStep /\ dbOut'.arg = a.id)
                        => compliance_analyses'[i].status = "in_progress"
                 /\ projects[a.project_id] = "analyzing"
                       /\ ~(CompleteStep /\ ProjectOf(dbOut'.arg) = a.project_id)
                        => projects'[a.project_id] = "analyzing"
\* what get_analysis reports once complete_analysis has run on the analysis
ReportsCompleted ==
    LET got == get_analysis(compliance_analyses', analysis_findings', dbOut'.arg)
    IN /\ got # <<>>
       /\ got[1].row.status = "completed"
       /\ got[1].row.overall_risk_level = <<dbOut'.level>>
       /\ got[1].row.total_findings = <<Len(got[1].findings)>>
       /\ got[1].row.critical_count = CountOf(got[1].findings, "critical")
       /\ got[1].row.high_count = CountOf(got[1].findings, "high")
       /\ got[1].row.medium_count = CountOf(got[1].findings, "medium")
       /\ got[1].row.low_count = CountOf(got[1].findings, "low")
       /\ projects'[got[1].row.project_id] = "completed"

\* C23: an analysis is 'in_progress' and its project 'analyzing' from
\* create_analysis until complete_analysis; after complete_analysis,
\* get_analysis reports 'completed', the risk level given, total_findings and
\* the per-severity counts equal to the numbers of findings of the analysis,
\* and the project is 'completed'.
C23_AsStated ==
    [][CreatedInProgress /\ StaysInProgress /\ (CompleteStep => ReportsCompleted)]_vars

\* C23 for an analysis that has at least one finding when it is completed
C23_WithFindings ==
    [][/\ CreatedInProgress
       /\ StaysInProgress
       /\ CompleteStep /\ FindingsOf(dbOut'.arg) # <<>> => ReportsCompleted]_vars
C23_Witness ==
    /\ dbOut.op = "complete_analysis"
    /\ ~dbOut.raised
    /\ Len(compliance_analyses) = 1
    /\ Len(analysis_findings) = 2
    /\ compliance_analyses[1].high_count = <<1>>
    /\ compliance_analyses[1].medium_count = <<1>>
    /\ compliance_analyses[1].critical_count = <<0>>

(***************************************************************************)
(* The fusion of hybrid search on given result lists                       *)
(***************************************************************************)
\* chunks two of which agree on their first 100 characters
FusionTexts ==
    { [head |-> "A", tail |-> ""], [head |-> "A", tail |-> "x"], [head |-> "B", tail |-> ""] }
\* the lists an index returns: no chunk twice
ResultLists(search_type) ==
    LET hits == {Hit(t, [source_type |-> "law"], 5000, search_type) : t \in FusionTexts}
    IN UNION { {q \in [1..n -> hits] : \A i, j \in 1..n : q[i] = q[j] => i = j}
               : n \in 0..Cardinality(hits) }

NoFusion == [done |-> FALSE, merged |-> <<>>]
\* the lists the two searches hand to the loops; the keyword list is empty
\* whenever the full-text search raises
FusionInit ==
    /\ fuSem \in ResultLists("semantic")
    /\ fuKw \in ResultLists("keyword")
    /\ fuOut = NoFusion
FusionIdle ==
    /\ fuSem = <<>>
    /\ fuKw = <<>>
    /\ fuOut = NoFusion

\* the two fusion loops of search_legal_context on the lists given
FuseLists ==
    /\ ~fuOut.done
    /\ fuOut' = [done |-> TRUE, merged |-> Fuse(fuSem, fuKw)]
    /\ UNCHANGED <<fuSem, fuKw>>

(***************************************************************************)
(* Claims about the fusion (SpecFusion)                                    *)
(***************************************************************************)
Fingerprint(r) == Md5(First100(r.text))
\* the 0-based positions at which a list holds the fingerprint
RanksOf(results, doc_key) == {i - 1 : i \in {j \in DOMAIN results : Fingerprint(results[j]) = doc_key}}
RECURSIVE SumOver(_, _, _)
\* the sum over the ranks of weight * den / (60 + rank)
SumOver(ranks, weight, den) ==
    IF ranks = {} THEN 0
    ELSE LET r == CHOOSE x \in ranks : TRUE
         IN weight * (den \div (60 + r)) + SumOver(ranks \ {r}, weight, den)

\* C24: the fusion score of a merged item, before rounding and weighting, is
\* the sum over the occurrences of its fingerprint of 0.7/(60+rank) in the
\* semantic list and 0.3/(60+rank) in the keyword list, rank counted from 0;
\* every fingerprint of the two lists is merged, and none twice.  The score
\* is the fraction key[1] / (10 * key[2]).
C24_FusionScore ==
    fuOut.done =>
        /\ \A i, j \in DOMAIN fuOut.merged :
              fuOut.merged[i].doc_key = fuOut.merged[j].doc_key => i = j
        /\ {fuOut.merged[i].doc_key : i \in DOMAIN fuOut.merged}
              = {Fingerprint(fuSem[i]) : i \in DOMAIN fuSem}
                   \cup {Fingerprint(fuKw[i]) : i \in DOMAIN fuKw}
        /\ \A i \in DOMAIN fuOut.merged :
              LET e == fuOut.merged[i]
                  sem == RanksOf(fuSem, e.doc_key)
                  kw == RanksOf(fuKw, e.doc_key)
              IN /\ \A r \in sem \cup kw : e.key[2] % (60 + r) = 0
                 /\ e.key[1] = SumOver(sem, 7, e.key[2]) + SumOver(kw, 3, e.key[2])
\* the semantic list holds two chunks of one fingerprint, at ranks 0 and 2
C24_Witness ==
    /\ fuOut.done
    /\ fuKw = <<>>
    /\ Len(fuSem) = 3
    /\ Fingerprint(fuSem[1]) = Fingerprint(fuSem[3])
    /\ Len(fuOut.merged) = 2

(***************************************************************************)
(* Re-ingestion into the FAISS indexes                                     *)
(***************************************************************************)
\* the chunks of the corpus that belong to a collection
DocsOf(coll) == {SearchDocs[i].id : i \in {j \in DOMAIN SearchDocs : SearchDocs[j].coll = coll}}
IndexIdle == _vectorstores = [c \in Collections |-> DocsOf(c)]
\* calls that differ in nothing but use_cache
RefreshCalls ==
    { HybridCall(2, 3000, NoCollections, TRUE, TRUE),
      HybridCall(2, 3000, NoCollections, TRUE, FALSE) }

\* ingest_laws_langchain, ingest_precedents_langchain and
\* ingest_store_policies_langchain: `documents` are the chunks of the data
\* file that pass the filter; a new index is built from them and replaces
\* the old one, and force_refresh removes the old one first
IngestLangchain ==
    /\ searches < MaxSearches
    /\ \E coll \in Collections, force_refresh \in BOOLEAN :
        \E documents \in SUBSET DocsOf(coll) :
          _vectorstores' =
              [_vectorstores EXCEPT ![coll] =
                  IF documents # {} THEN documents
                  ELSE IF force_refresh THEN {}
                  ELSE @]
    /\ UNCHANGED <<searchVars>>

\* clear_cache
ClearCache ==
    /\ searches < MaxSearches
    /\ _search_cache # <<>>
    /\ _search_cache' = <<>>
    /\ UNCHANGED <<_vectorstores, semScore, kwRows, channel, now, sOut, searches, expandVars>>

(***************************************************************************)
(* Claims about searches after a re-ingestion (SpecRefresh)                *)
(***************************************************************************)
\* C29: a search made after an ingestion or a force-refresh of a collection
\* returns what is computed from the current contents of the collections: no
\* chunk that is no longer there, and no matching chunk left out, because of
\* an index or a result cached before the change.
C29_AsStated ==
    [][(searches' = searches + 1 /\ sOut'.fn = "langchain") =>
          /\ \A i \in DOMAIN sOut'.result :
                \E c \in Collections :
                    MetaGet(sOut'.result[i].metadata, "source_id", "unknown")
                        \in _vectorstores[c]
          /\ sOut'.result = RankedResults(sOut'.top_k, sOut'.score_threshold,
                                          sOut'.collections, sOut'.use_hybrid)]_vars

\* What does hold: a search that is not served from _search_cache returns what
\* the current indexes give.
C29_NotFromCache ==
    [][(searches' = searches + 1 /\ sOut'.fn = "langchain" /\ ~sOut'.cached) =>
          sOut'.result = RankedResults(sOut'.top_k, sOut'.score_threshold,
                                       sOut'.collections, sOut'.use_hybrid)]_vars

(***************************************************************************)
(* Specifications                                                          *)
(***************************************************************************)
\* the components a specification leaves at rest
MoreIdle == ThreadsIdle /\ DbIdle /\ FusionIdle /\ IndexIdle

InitFilter == FilterInit /\ ChunkIdle /\ StoreInit /\ SearchIdle /\ MoreIdle
NextFilter == FilterValidate /\ UNCHANGED <<moreVars, chunkVars, storeVars, searchVars>>
SpecFilter == InitFilter /\ [][NextFilter]_vars

InitChunk == ChunkInit /\ FilterIdle /\ StoreInit /\ SearchIdle /\ MoreIdle
NextChunk ==
    \/ CallChunkLawText /\ UNCHANGED <<moreVars, filterVars, storeVars, searchVars>>
    \/ CallChunkPrecedentText /\ UNCHANGED <<moreVars, filterVars, storeVars, searchVars>>
    \/ CallChunkLawTextAdvanced /\ UNCHANGED <<moreVars, filterVars, storeVars, searchVars>>
SpecChunk == InitChunk /\ [][NextChunk]_vars

InitStore == StoreInit /\ FilterIdle /\ ChunkIdle /\ SearchIdle /\ MoreIdle
NextStore ==
    \/ StoreUpsert /\ UNCHANGED <<moreVars, filterVars, chunkVars, searchVars>>
    \/ StoreClear /\ UNCHANGED <<moreVars, filterVars, chunkVars, searchVars>>
    \/ SaveOpen /\ UNCHANGED <<moreVars, filterVars, chunkVars, searchVars>>
    \/ SaveWrite /\ UNCHANGED <<moreVars, filterVars, chunkVars, searchVars>>
    \/ SaveFail /\ UNCHANGED <<moreVars, filterVars, chunkVars, searchVars>>
    \/ Restart /\ UNCHANGED <<moreVars, filterVars, chunkVars, searchVars>>
SpecStore == InitStore /\ [][NextStore]_vars

NextIngest ==
    \/ IngestLaws /\ UNCHANGED <<moreVars, filterVars, chunkVars, searchVars>>
    \/ IngestLawItem /\ UNCHANGED <<moreVars, filterVars, chunkVars, searchVars>>
    \/ IngestPrecedents /\ UNCHANGED <<moreVars, filterVars, chunkVars, searchVars>>
    \/ IngestPrecedentItem /\ UNCHANGED <<moreVars, filterVars, chunkVars, searchVars>>
    \/ IngestStorePolicies /\ UNCHANGED <<moreVars, filterVars, chunkVars, searchVars>>
    \/ IngestPolicyItem /\ UNCHANGED <<moreVars, filterVars, chunkVars, searchVars>>
    \/ IngestReturn /\ UNCHANGED <<moreVars, filterVars, chunkVars, searchVars>>
    \/ SaveOpen /\ UNCHANGED <<moreVars, filterVars, chunkVars, searchVars>>
    \/ SaveWrite /\ UNCHANGED <<moreVars, filterVars, chunkVars, searchVars>>
    \/ SaveFail /\ UNCHANGED <<moreVars, filterVars, chunkVars, searchVars>>
    \/ Restart /\ UNCHANGED <<moreVars, filterVars, chunkVars, searchVars>>
SpecIngest == InitStore /\ [][NextIngest]_vars

InitSearch == SearchInit /\ FilterIdle /\ ChunkIdle /\ CorpusInit /\ MoreIdle
NextSearch ==
    \/ SearchLegalContext /\ UNCHANGED <<moreVars, filterVars, chunkVars, storeVars>>
    \/ SearchStorePolicies /\ UNCHANGED <<moreVars, filterVars, chunkVars, storeVars>>
    \/ SearchLegalContextPlain /\ UNCHANGED <<moreVars, filterVars, chunkVars>>
    \/ SearchLegalContextAdvanced /\ UNCHANGED <<moreVars, filterVars, chunkVars, storeVars>>
    \/ Tick /\ UNCHANGED <<moreVars, filterVars, chunkVars, storeVars>>
SpecSearch == InitSearch /\ [][NextSearch]_vars

\* the store and the searches of one process
InitQuery == StoreInit /\ FilterIdle /\ ChunkIdle /\ SearchIdle /\ MoreIdle
NextQuery ==
    \/ StoreUpsert /\ UNCHANGED <<moreVars, filterVars, chunkVars, searchVars>>
    \/ StoreClear /\ UNCHANGED <<moreVars, filterVars, chunkVars, searchVars>>
    \/ SaveOpen /\ UNCHANGED <<moreVars, filterVars, chunkVars, searchVars>>
    \/ SaveWrite /\ UNCHANGED <<moreVars, filterVars, chunkVars, searchVars>>
    \/ SearchLegalContextPlainOn(QueryTopKs, QueryThresholds)
          /\ UNCHANGED <<moreVars, filterVars, chunkVars>>
    \/ SearchLegalContextOn(QueryCalls) /\ UNCHANGED <<moreVars, filterVars, chunkVars, storeVars>>
SpecQuery == InitQuery /\ [][NextQuery]_vars

\* searches over indexes that fail
InitChannel == ChannelInit /\ FilterIdle /\ ChunkIdle /\ CorpusInit /\ MoreIdle
NextChannel ==
    \/ SearchLegalContextOn(ChannelCalls) /\ UNCHANGED <<moreVars, filterVars, chunkVars, storeVars>>
    \/ SearchLegalContextPlainOn(QueryTopKs, QueryThresholds)
          /\ UNCHANGED <<moreVars, filterVars, chunkVars>>
SpecChannel == InitChannel /\ [][NextChannel]_vars

\* calls of expand_query
InitExpand == SearchIdle /\ FilterIdle /\ ChunkIdle /\ StoreInit /\ MoreIdle
NextExpand ==
    ExpandQuery
        /\ UNCHANGED <<moreVars, filterVars, chunkVars, storeVars, semScore, kwRows, channel,
                       _search_cache, now, sOut, searches>>
SpecExpand == InitExpand /\ [][NextExpand]_vars

\* two threads searching the ingested corpus at once
InitThreads ==
    /\ SearchInit /\ CorpusInit /\ FilterIdle /\ ChunkIdle
    /\ ThreadsIdle /\ DbIdle /\ FusionIdle /\ IndexIdle
NextThreads ==
    \E t \in Threads :
        \/ ThreadCall(t) /\ UNCHANGED <<filterVars, chunkVars, dbVars, fusionVars, indexVars>>
        \/ CacheTest(t) /\ UNCHANGED <<filterVars, chunkVars, dbVars, fusionVars, indexVars>>
        \/ CacheRead(t) /\ UNCHANGED <<filterVars, chunkVars, dbVars, fusionVars, indexVars>>
        \/ ThreadCompute(t) /\ UNCHANGED <<filterVars, chunkVars, dbVars, fusionVars, indexVars>>
        \/ CacheStore(t) /\ UNCHANGED <<filterVars, chunkVars, dbVars, fusionVars, indexVars>>
        \/ ThreadOpen(t) /\ UNCHANGED <<filterVars, chunkVars, dbVars, fusionVars, indexVars>>
        \/ ThreadQuery(t) /\ UNCHANGED <<filterVars, chunkVars, dbVars, fusionVars, indexVars>>
SpecThreads == InitThreads /\ [][NextThreads]_vars

\* calls of one DatabaseManager, one after the other
InitDb ==
    /\ DbInit /\ ThreadsIdle /\ FusionIdle /\ IndexIdle
    /\ FilterIdle /\ ChunkIdle /\ StoreInit /\ SearchIdle
NextDb ==
    \/ UpsertChunk /\ UNCHANGED <<filterVars, chunkVars, storeVars, searchVars, threadVars, fusionVars, indexVars>>
    \/ CreateAnalysis /\ UNCHANGED <<filterVars, chunkVars, storeVars, searchVars, threadVars, fusionVars, indexVars>>
    \/ AddFinding /\ UNCHANGED <<filterVars, chunkVars, storeVars, searchVars, threadVars, fusionVars, indexVars>>
    \/ CompleteAnalysis /\ UNCHANGED <<filterVars, chunkVars, storeVars, searchVars, threadVars, fusionVars, indexVars>>
SpecDb == InitDb /\ [][NextDb]_vars

\* the fusion on every pair of result lists
InitFusion ==
    /\ FusionInit /\ ThreadsIdle /\ DbIdle /\ IndexIdle
    /\ FilterIdle /\ ChunkIdle /\ StoreInit /\ SearchIdle
NextFusion ==
    FuseLists
        /\ UNCHANGED <<filterVars, chunkVars, storeVars, searchVars, threadVars, dbVars,
                       indexVars>>
SpecFusion == InitFusion /\ [][NextFusion]_vars

\* searches of the FAISS indexes between re-ingestions
InitRefresh ==
    /\ SearchInit /\ IndexIdle /\ CorpusInit
    /\ FilterIdle /\ ChunkIdle /\ ThreadsIdle /\ DbIdle /\ FusionIdle
NextRefresh ==
    \/ SearchLegalContextOn(RefreshCalls)
          /\ UNCHANGED <<filterVars, chunkVars, storeVars, threadVars, dbVars, fusionVars,
                         indexVars>>
    \/ IngestLangchain
          /\ UNCHANGED <<filterVars, chunkVars, storeVars, threadVars, dbVars, fusionVars>>
    \/ ClearCache
          /\ UNCHANGED <<filterVars, chunkVars, storeVars, threadVars, dbVars, fusionVars>>
SpecRefresh == InitRefresh /\ [][NextRefresh]_vars

=============================================================================
